---- MODULE Spec2Model ----
(***************************************************************************)
(* ToneForge deterministic chain mapper, tone sanitizer and action planner *)
(* (tauri-app/src-tauri/src/chain_mapper.rs, tone_sanitizer.rs) together   *)
(* with the load / resnapshot / re-map applier loop of                     *)
(* mapper-tests/src/bin/gemini_chain_test.rs.                              *)
(*                                                                         *)
(* Strings are sequences of one-character strings so that lowercasing,     *)
(* alphanumeric folding, substring search, tokenisation and number parsing *)
(* are computed, not assumed.  An f64 is a record [k, n]: k = "fin" with n *)
(* the value in thousandths (amp/effect values, normalized values) or in   *)
(* whole dB / whole Hz where the code uses those units; k = "nan";         *)
(* k = "inf" with n = 1 or -1.  A HashMap is a set of [k, v] entries with  *)
(* distinct keys; enumerating one is a choice of any order.                *)
(***************************************************************************)
EXTENDS Integers, Sequences, FiniteSets, TLC

\* ------------------------------------------------------------------ bounds
MaxPlugins == 2
MaxToneWeight == 2
MaxEnum == 3

\* ------------------------------------------------------------- characters
UpperChars == <<"A","B","C","D","E","F","G","H","I","J","K","L","M","N","O","P","Q","R","S","T","U","V","W","X","Y","Z">>
LowerChars == <<"a","b","c","d","e","f","g","h","i","j","k","l","m","n","o","p","q","r","s","t","u","v","w","x","y","z">>
DigitChars == <<"0","1","2","3","4","5","6","7","8","9">>

SeqRange(s) == {s[i] : i \in 1..Len(s)}
UpperSet == SeqRange(UpperChars)
LowerSet == SeqRange(LowerChars)
DigitSet == SeqRange(DigitChars)

\* char::to_lowercase on the ASCII range
LowerOf == [c \in UpperSet |-> LowerChars[CHOOSE i \in 1..26 : UpperChars[i] = c]]
char_to_lowercase(c) == IF c \in UpperSet THEN LowerOf[c] ELSE c

is_alphabetic(c) == c \in UpperSet \/ c \in LowerSet
is_ascii_digit(c) == c \in DigitSet
is_alphanumeric(c) == is_alphabetic(c) \/ is_ascii_digit(c)
DigitValue(c) == (CHOOSE i \in 1..10 : DigitChars[i] = c) - 1

\* ---------------------------------------------------------------- strings
to_lowercase(s) == [i \in 1..Len(s) |-> char_to_lowercase(s[i])]

str_contains(s, sub) ==
    \E i \in 0..(Len(s) - Len(sub)) : SubSeq(s, i + 1, i + Len(sub)) = sub

str_ends_with(s, suf) ==
    Len(suf) <= Len(s) /\ SubSeq(s, Len(s) - Len(suf) + 1, Len(s)) = suf

str_starts_with(s, pre) ==
    Len(pre) <= Len(s) /\ SubSeq(s, 1, Len(pre)) = pre

\* str::find: 1-based position of the first occurrence, 0 when absent
str_find(s, sub) ==
    IF str_contains(s, sub)
    THEN CHOOSE i \in 1..(Len(s) - Len(sub) + 1) :
            /\ SubSeq(s, i, i + Len(sub) - 1) = sub
            /\ \A j \in 1..(i - 1) : SubSeq(s, j, j + Len(sub) - 1) # sub
    ELSE 0

IsAlnumChar(c) == is_alphanumeric(c)
IsAlnumOrUnderscore(c) == is_alphanumeric(c) \/ c = "_"
NotSpace(c) == c # " "

\* chain_mapper.rs normalize_token: lowercase, keep alphanumerics only
normalize_token(text) == SelectSeq(to_lowercase(text), IsAlnumChar)

\* tone_sanitizer.rs normalize_token: lowercase, keep alphanumerics and '_'
san_normalize_token(text) == SelectSeq(to_lowercase(text), IsAlnumOrUnderscore)

contains_token(text, token) ==
    str_contains(normalize_token(text), normalize_token(token))

\* the maximal runs of alphanumeric characters of a string
\* (split on non-alphanumerics, empty pieces removed)
SplitAlnum(s) ==
    { SubSeq(s, i, j) : <<i, j>> \in
        { p \in (1..Len(s)) \X (1..Len(s)) :
            /\ p[1] <= p[2]
            /\ \A x \in p[1]..p[2] : is_alphanumeric(s[x])
            /\ (p[1] = 1 \/ ~is_alphanumeric(s[p[1] - 1]))
            /\ (p[2] = Len(s) \/ ~is_alphanumeric(s[p[2] + 1])) } }

\* a local binding: Body applied to the value v (v is evaluated once)
Let(v, Body(_)) == Body(v)
Let2(v, w, Body(_, _)) == Body(v, w)

MinOf(S) == CHOOSE i \in S : \A j \in S : i <= j
MaxOf(S) == CHOOSE i \in S : \A j \in S : j <= i

\* every ordering of a finite set, as sequences without repetition
RECURSIVE Perms(_)
Perms(S) ==
    IF S = {} THEN {<<>>}
    ELSE UNION { { <<e>> \o p : p \in Perms(S \ {e}) } : e \in S }

\* one fixed order of a finite set, and that order reversed
RECURSIVE SomeOrder(_)
SomeOrder(S) ==
    IF S = {} THEN << >>
    ELSE << CHOOSE x \in S : TRUE >> \o SomeOrder(S \ { CHOOSE x \in S : TRUE })

Reverse(s) == [i \in 1..Len(s) |-> s[Len(s) + 1 - i]]

\* the orders in which a HashMap / HashSet holding the elements S is
\* enumerated: every order up to MaxEnum elements, two opposite orders above
EnumOrders(S) ==
    IF Cardinality(S) <= MaxEnum THEN Perms(S)
    ELSE { SomeOrder(S), Reverse(SomeOrder(S)) }

\* ------------------------------------------------------------------ f64
Unit == 1000
Fin(n) == [k |-> "fin", n |-> n]
NaN == [k |-> "nan", n |-> 0]
PosInf == [k |-> "inf", n |-> 1]
NegInf == [k |-> "inf", n |-> -1]

is_finite(x) == x.k = "fin"
is_nan(x) == x.k = "nan"

\* IEEE comparisons: every comparison with NaN is false
f_lt(x, y) ==
    /\ ~is_nan(x) /\ ~is_nan(y)
    /\ \/ is_finite(x) /\ is_finite(y) /\ x.n < y.n
       \/ x = NegInf /\ y # NegInf
       \/ y = PosInf /\ x # PosInf
f_gt(x, y) == f_lt(y, x)
f_ge(x, y) == ~is_nan(x) /\ ~is_nan(y) /\ ~f_lt(x, y)

\* f64::clamp with finite bounds: NaN stays NaN
f_clamp(x, lo, hi) ==
    IF is_nan(x) THEN x
    ELSE IF f_lt(x, Fin(lo)) THEN Fin(lo)
    ELSE IF f_gt(x, Fin(hi)) THEN Fin(hi)
    ELSE x

\* f64::abs
f_abs(x) ==
    IF is_finite(x) THEN Fin(IF x.n < 0 THEN -x.n ELSE x.n)
    ELSE IF is_nan(x) THEN x ELSE PosInf

\* ------------------------------------------------- chain_mapper vocabulary
role_keywords_amp == << <<"n","e","u","r","a","l","d","s","p">>, <<"a","r","c","h","e","t","y","p","e">>, <<"a","m","p">>, <<"s","i","m">>, <<"a","m","p","l","i","f","i","e","r">>, <<"d","i","s","t">>, <<"g","a","i","n">> >>
role_keywords_eq == << <<"r","e","a","e","q">>, <<"p","r","o","q">>, <<"e","q">>, <<"e","q","u","a","l","i","z","e","r">> >>
role_keywords_gate == << <<"r","e","a","g","a","t","e">>, <<"g","a","t","e">>, <<"n","o","i","s","e","g","a","t","e">>, <<"n","o","i","s","e">> >>
role_keywords_reverb == << <<"r","e","a","v","e","r","b","a","t","e">>, <<"r","e","a","v","e","r","b">>, <<"r","e","v","e","r","b">>, <<"r","o","o","m">>, <<"h","a","l","l">> >>
role_keywords_delay == << <<"r","e","a","d","e","l","a","y">>, <<"d","e","l","a","y">>, <<"e","c","h","o">> >>

role_keywords_for_effect(effect_type_norm) ==
    IF effect_type_norm \in {<<"n","o","i","s","e","g","a","t","e">>, <<"g","a","t","e">>} THEN role_keywords_gate
    ELSE IF effect_type_norm \in {<<"o","v","e","r","d","r","i","v","e">>, <<"o","d">>}
        THEN << <<"o","v","e","r","d","r","i","v","e">>, <<"o","d">>, <<"s","c","r","e","a","m","e","r">>, <<"d","r","i","v","e">> >>
    ELSE IF effect_type_norm \in {<<"d","i","s","t","o","r","t","i","o","n">>, <<"d","i","s","t">>}
        THEN << <<"d","i","s","t","o","r","t","i","o","n">>, <<"d","i","s","t">>, <<"f","u","z","z">> >>
    ELSE IF effect_type_norm \in {<<"c","o","m","p","r","e","s","s","o","r">>, <<"c","o","m","p">>}
        THEN << <<"c","o","m","p","r","e","s","s","o","r">>, <<"c","o","m","p">> >>
    ELSE << effect_type_norm >>

NoDefault == << >>
DefaultReaGate == <<"R","e","a","G","a","t","e"," ","(","C","o","c","k","o","s",")">>
DefaultReaVerbate == <<"R","e","a","V","e","r","b","a","t","e"," ","(","C","o","c","k","o","s",")">>
DefaultReaDelay == <<"R","e","a","D","e","l","a","y"," ","(","C","o","c","k","o","s",")">>
DefaultReaEQ == <<"R","e","a","E","Q"," ","(","C","o","c","k","o","s",")">>

\* Option<&'static str>: NoDefault stands for None
default_plugin_for_effect(effect_type_norm) ==
    IF effect_type_norm \in {<<"n","o","i","s","e","g","a","t","e">>, <<"g","a","t","e">>} THEN DefaultReaGate ELSE NoDefault

synonyms_for_key(key_norm) ==
    IF key_norm = <<"g","a","i","n">> THEN << <<"g","a","i","n">>, <<"d","r","i","v","e">>, <<"i","n","p","u","t">>, <<"p","r","e","g","a","i","n">>, <<"p","r","e","a","m","p">> >>
    ELSE IF key_norm = <<"d","r","i","v","e">> THEN << <<"d","r","i","v","e">>, <<"g","a","i","n">>, <<"i","n","p","u","t">> >>
    ELSE IF key_norm \in {<<"b","a","s","s">>, <<"l","o","w">>} THEN << <<"b","a","s","s">>, <<"l","o","w">>, <<"l","f">>, <<"l","o","w","s">> >>
    ELSE IF key_norm \in {<<"m","i","d">>, <<"m","i","d","d","l","e">>} THEN << <<"m","i","d">>, <<"m","i","d","d","l","e">>, <<"m","i","d","s">>, <<"m","f">> >>
    ELSE IF key_norm \in {<<"t","r","e","b","l","e">>, <<"h","i","g","h">>}
        THEN << <<"t","r","e","b","l","e">>, <<"h","i","g","h">>, <<"h","f">>, <<"h","i","g","h","s">>, <<"p","r","e","s","e","n","c","e">> >>
    ELSE IF key_norm = <<"p","r","e","s","e","n","c","e">> THEN << <<"p","r","e","s","e","n","c","e">>, <<"p","r","e","s">>, <<"b","r","i","g","h","t">> >>
    ELSE IF key_norm \in {<<"m","a","s","t","e","r">>, <<"o","u","t","p","u","t">>, <<"l","e","v","e","l">>, <<"v","o","l","u","m","e">>}
        THEN << <<"m","a","s","t","e","r">>, <<"o","u","t","p","u","t">>, <<"l","e","v","e","l">>, <<"v","o","l","u","m","e">> >>
    ELSE IF key_norm = <<"t","h","r","e","s","h","o","l","d">> THEN << <<"t","h","r","e","s","h","o","l","d">>, <<"t","h","r","e","s","h">> >>
    ELSE IF key_norm = <<"a","t","t","a","c","k">> THEN << <<"a","t","t","a","c","k">>, <<"a","t","t">> >>
    ELSE IF key_norm = <<"r","e","l","e","a","s","e">> THEN << <<"r","e","l","e","a","s","e">>, <<"r","e","l">> >>
    ELSE IF key_norm = <<"m","i","x">> THEN << <<"m","i","x">>, <<"w","e","t">>, <<"d","r","y","w","e","t">>, <<"b","l","e","n","d">> >>
    ELSE IF key_norm = <<"t","i","m","e">> THEN << <<"t","i","m","e">>, <<"m","s">>, <<"s","e","c">>, <<"s","e","c","o","n","d","s">> >>
    ELSE IF key_norm = <<"f","e","e","d","b","a","c","k">> THEN << <<"f","e","e","d","b","a","c","k">>, <<"f","b">> >>
    ELSE << key_norm >>

\* ------------------------------------------------------ role / param match
\* sum of (10 - i) over the keywords (0-indexed) occurring in the folded text
RECURSIVE KeywordScoreFrom(_, _, _)
KeywordScoreFrom(t, keywords, i) ==
    IF i > Len(keywords) THEN 0
    ELSE (IF str_contains(t, keywords[i]) THEN 10 - (i - 1) ELSE 0)
         + KeywordScoreFrom(t, keywords, i + 1)

\* a score that counts the keywords found, whatever their position
score_keyword_count(text, keywords) ==
    Cardinality({ i \in 1..Len(keywords) : str_contains(normalize_token(text), keywords[i]) })

score_text_against_keywords(text, keywords) ==
    KeywordScoreFrom(normalize_token(text), keywords, 1)

\* first element of xs (in order) with the strictly greatest positive score;
\* 0 when every score is <= 0.  Returns the position in xs.
RECURSIVE BestFrom(_, _, _, _)
BestFrom(scores, i, best, best_score) ==
    IF i > Len(scores) THEN best
    ELSE IF scores[i] <= 0 THEN BestFrom(scores, i + 1, best, best_score)
    ELSE IF best = 0 \/ scores[i] > best_score
        THEN BestFrom(scores, i + 1, i, scores[i])
    ELSE BestFrom(scores, i + 1, best, best_score)

\* Option<&ReaperPlugin> as a position in snapshot.plugins, 0 for None
pick_best_plugin(snap, keywords) ==
    BestFrom([i \in 1..Len(snap.plugins) |->
                score_text_against_keywords(snap.plugins[i].name, keywords)], 1, 0, 0)

\* first synonym (in order) that the folded name equals or contains decides
RECURSIVE SynonymScoreFrom(_, _, _)
SynonymScoreFrom(p, synonyms, i) ==
    IF i > Len(synonyms) THEN 0
    ELSE IF p = synonyms[i] THEN 90 - (i - 1)
    ELSE IF str_contains(p, synonyms[i]) THEN 50 - (i - 1)
    ELSE SynonymScoreFrom(p, synonyms, i + 1)

score_param_name(param_name, key_norm, synonyms) ==
    Let(normalize_token(param_name), LAMBDA p :
        IF p = key_norm THEN 100
        ELSE IF str_contains(p, key_norm) THEN 60
        ELSE SynonymScoreFrom(p, synonyms, 1))

\* Option<&ReaperParameter> as a position in plugin.parameters, 0 for None
pick_best_param(plugin, key) ==
    Let(normalize_token(key), LAMBDA key_norm :
        BestFrom([i \in 1..Len(plugin.parameters) |->
                    score_param_name(plugin.parameters[i].name, key_norm,
                                     synonyms_for_key(key_norm))], 1, 0, 0))

\* ------------------------------------------------------------ section gates
\* Option<GateKind>: "Bypass", "Enable" or "None"
gate_kind(name) ==
    Let(normalize_token(name), LAMBDA n :
        IF str_contains(n, <<"b","y","p","a","s","s">>) THEN "Bypass"
        ELSE IF \/ str_contains(n, <<"e","n","a","b","l","e">>) \/ str_contains(n, <<"e","n","a","b","l","e","d">>)
                \/ str_ends_with(n, <<"o","n">>) \/ str_contains(n, <<"a","c","t","i","v","e">>)
            THEN "Enable"
        ELSE "None")

\* faulty variant: the current value is not looked at
gate_never_active(gate) == TRUE

gate_is_inactive(gate) ==
    IF gate.kind = "Bypass" THEN f_ge(gate.current_value, Fin(Unit \div 2))
    ELSE f_lt(gate.current_value, Fin(Unit \div 2))

gate_enable_value(gate) ==
    IF gate.kind = "Bypass" THEN Fin(0) ELSE Fin(Unit)

StopTokens ==
    { <<"e","n","a","b","l","e">>, <<"e","n","a","b","l","e","d">>, <<"b","y","p","a","s","s">>, <<"o","n">>, <<"o","f","f">>, <<"a","c","t","i","v","e">>, <<"s","w","i","t","c","h">>, <<"b","u","t","t","o","n">>,
      <<"b","a","n","d">>, <<"f","r","e","q">>, <<"f","r","e","q","u","e","n","c","y">>, <<"g","a","i","n">>, <<"l","e","v","e","l">>, <<"m","i","x">>, <<"a","m","o","u","n","t">> }

module_tokens(name) ==
    { t \in { to_lowercase(r) : r \in SplitAlnum(name) } :
        /\ \E i \in 1..Len(t) : is_alphabetic(t[i])
        /\ t \notin StopTokens }

\* ---------------------------------------------------------- unit conversion
\* the text before position pos parsed as an f64: an optional sign, digits and
\* an optional fraction (kept to thousandths), or nan / inf / infinity.
\* Returns [ok, v] with v in thousandths.
RECURSIVE DigitsValue(_)
DigitsValue(ds) ==
    IF ds = <<>> THEN 0
    ELSE 10 * DigitsValue(SubSeq(ds, 1, Len(ds) - 1)) + DigitValue(ds[Len(ds)])

AllDigits(ds) == \A i \in 1..Len(ds) : is_ascii_digit(ds[i])

Pad3(ds) ==
    Let(SubSeq(ds, 1, IF Len(ds) < 3 THEN Len(ds) ELSE 3), LAMBDA d :
        d \o [i \in 1..(3 - Len(d)) |-> "0"])

ParseFail == [ok |-> FALSE, v |-> NaN]

ParseDecimal(neg, ip, fp) ==
    IF AllDigits(ip) /\ AllDigits(fp) /\ Len(ip) + Len(fp) > 0
    THEN Let(DigitsValue(ip) * 1000 + DigitsValue(Pad3(fp)), LAMBDA mag :
            [ok |-> TRUE, v |-> Fin(IF neg THEN -mag ELSE mag)])
    ELSE ParseFail

ParseUnsigned(neg, body) ==
    IF body = <<"n","a","n">> THEN [ok |-> TRUE, v |-> NaN]
    ELSE IF body \in {<<"i","n","f">>, <<"i","n","f","i","n","i","t","y">>}
        THEN [ok |-> TRUE, v |-> IF neg THEN NegInf ELSE PosInf]
    ELSE Let(str_find(body, <<".">>), LAMBDA dot :
            ParseDecimal(neg,
                IF dot = 0 THEN body ELSE SubSeq(body, 1, dot - 1),
                IF dot = 0 THEN <<>> ELSE SubSeq(body, dot + 1, Len(body))))

parse_f64(num) ==
    IF num # <<>> /\ Head(num) \in {"-", "+"}
    THEN ParseUnsigned(Head(num) = "-", Tail(num))
    ELSE ParseUnsigned(FALSE, num)

ParseHz(s, pos, isKhz) ==
    Let(parse_f64(SubSeq(s, 1, pos - 1)), LAMBDA num :
        IF ~num.ok THEN ParseFail
        ELSE IF ~is_finite(num.v) THEN num
        ELSE IF isKhz THEN [ok |-> TRUE, v |-> Fin(num.v.n)]
        ELSE [ok |-> TRUE, v |-> Fin(num.v.n \div 1000)])

\* Option<f64> in Hz: [ok, v] with v in whole Hz (fractions of a Hz are cut)
parse_frequency_hz(text) ==
    Let(SelectSeq(to_lowercase(text), NotSpace), LAMBDA s :
        Let2(str_find(s, <<"k","h","z">>), str_find(s, <<"h","z">>), LAMBDA khz_pos, hz_pos :
            IF khz_pos > 0 THEN ParseHz(s, khz_pos, TRUE)
            ELSE IF hz_pos > 0 THEN ParseHz(s, hz_pos, FALSE)
            ELSE ParseFail))

\* length of the longest prefix of s whose characters all satisfy Test
PrefixLen(s, Test(_)) ==
    IF \E i \in 1..Len(s) : ~Test(s[i])
    THEN (CHOOSE i \in 1..Len(s) : ~Test(s[i]) /\ \A j \in 1..(i - 1) : Test(s[j])) - 1
    ELSE Len(s)

IsSpace(c) == c = " "

BandDigits(rest) ==
    Let(SubSeq(rest, PrefixLen(rest, IsSpace) + 1, Len(rest)), LAMBDA after :
        Let(PrefixLen(after, is_ascii_digit), LAMBDA ndig :
            IF ndig = 0 THEN -1 ELSE DigitsValue(SubSeq(after, 1, ndig))))

\* Option<i32>: the digits after the first "band", -1 for None
parse_reaeq_band_number(param_name) ==
    Let(to_lowercase(param_name), LAMBDA lower :
        Let(str_find(lower, <<"b","a","n","d">>), LAMBDA band_pos :
            IF band_pos = 0 THEN -1
            ELSE BandDigits(SubSeq(lower, band_pos + 4, Len(lower)))))

EqMaxAbsDb == 24

\* db in whole dB, result in thousandths
db_to_normalized(db, max_abs_db) ==
    Let(f_clamp(db, -max_abs_db, max_abs_db), LAMBDA clamped :
        IF is_nan(clamped) THEN NaN
        ELSE Fin(((clamped.n + max_abs_db) * Unit) \div (2 * max_abs_db)))

\* (ln(hz) - ln(20)) / (ln(20000) - ln(20)) in thousandths: exact at the
\* anchors below and linear between two neighbouring anchors
LogAnchors ==
    << <<20, 0>>, <<50, 133>>, <<100, 233>>, <<200, 333>>, <<500, 466>>, <<1000, 566>>,
       <<2000, 667>>, <<5000, 799>>, <<10000, 900>>, <<20000, 1000>> >>

MinHz == 20
MaxHz == 20000

Interpolate(n, a, b) == Fin(a[2] + ((n - a[1]) * (b[2] - a[2])) \div (b[1] - a[1]))

hz_to_normalized_log(hz) ==
    Let(f_clamp(hz, MinHz, MaxHz), LAMBDA c :
        IF is_nan(c) THEN NaN
        ELSE IF c.n = MaxHz THEN Fin(Unit)
        ELSE Let(CHOOSE j \in 1..(Len(LogAnchors) - 1) :
                    LogAnchors[j][1] <= c.n /\ c.n < LogAnchors[j + 1][1], LAMBDA i :
                Interpolate(c.n, LogAnchors[i], LogAnchors[i + 1])))

\* ------------------------------------------------------- actions, messages
RECURSIVE NatToStr(_)
NatToStr(n) ==
    IF n < 10 THEN <<DigitChars[n + 1]>>
    ELSE NatToStr(n \div 10) \o <<DigitChars[(n % 10) + 1]>>

IntToStr(n) == IF n < 0 THEN <<"-">> \o NatToStr(-n) ELSE NatToStr(n)

\* Display of an f64 (finite values print their thousandths)
FloatToStr(x) ==
    IF is_nan(x) THEN <<"N","a","N">>
    ELSE IF x = PosInf THEN <<"i","n","f">>
    ELSE IF x = NegInf THEN <<"-","i","n","f">>
    ELSE IntToStr(x.n)

\* a formatted message: the format string's name and its arguments in order
Msg(fmt, args) == [fmt |-> fmt, args |-> args]

NoIndex == -1
NoName == << >>

\* ParameterAction, one record shape for the three variants; the fields a
\* variant does not carry hold NoIndex / NoName / Fin(0)
LoadPlugin(track, plugin_name, reason) ==
    [type |-> "LoadPlugin", track |-> track, plugin_index |-> NoIndex,
     plugin_name |-> plugin_name, param_index |-> NoIndex, param_name |-> NoName,
     value |-> Fin(0), reason |-> reason]

EnablePlugin(track, plugin_index, plugin_name, reason) ==
    [type |-> "EnablePlugin", track |-> track, plugin_index |-> plugin_index,
     plugin_name |-> plugin_name, param_index |-> NoIndex, param_name |-> NoName,
     value |-> Fin(0), reason |-> reason]

SetParameter(track, plugin_index, param_index, param_name, value, reason) ==
    [type |-> "SetParameter", track |-> track, plugin_index |-> plugin_index,
     plugin_name |-> NoName, param_index |-> param_index, param_name |-> param_name,
     value |-> value, reason |-> reason]

\* the buffers one map call appends to
Buf(actions, warnings, requires_resnapshot) ==
    [actions |-> actions, warnings |-> warnings, requires_resnapshot |-> requires_resnapshot]

EmptyBuf == Buf(<< >>, << >>, FALSE)

Push(buf, a) == [buf EXCEPT !.actions = Append(@, a)]
Warn(buf, w) == [buf EXCEPT !.warnings = Append(@, w)]

\* ------------------------------------------------------------ map sections
\* faulty variant: the parameter's position in the list is taken for its index
MapParamByPosition(track, plugin, group, key, value, pi, buf) ==
    IF pi = 0
    THEN Warn(buf, Msg("Unmapped {} param '{}' for plugin '{}'", <<group, key, plugin.name>>))
    ELSE Push(buf, SetParameter(track, plugin.index, pi - 1,
                    plugin.parameters[pi].name, value,
                    Msg("{} :: {} -> {}", <<group, key, plugin.parameters[pi].name>>)))

\* faulty variant: a key without a parameter is passed over in silence
MapParamSilent(track, plugin, group, key, value, pi, buf) ==
    IF pi = 0 THEN buf
    ELSE Push(buf, SetParameter(track, plugin.index, plugin.parameters[pi].index,
                    plugin.parameters[pi].name, value,
                    Msg("{} :: {} -> {}", <<group, key, plugin.parameters[pi].name>>)))

\* one entry (key, value) of the group against the parameter at position pi
MapParam(track, plugin, group, key, value, pi, buf) ==
    IF pi = 0
    THEN Warn(buf, Msg("Unmapped {} param '{}' for plugin '{}'", <<group, key, plugin.name>>))
    ELSE Push(buf, SetParameter(track, plugin.index, plugin.parameters[pi].index,
                    plugin.parameters[pi].name, value,
                    Msg("{} :: {} -> {}", <<group, key, plugin.parameters[pi].name>>)))

\* map_param_group with the HashMap's entries enumerated in the order ord
RECURSIVE MapParamGroupIn(_, _, _, _, _)
MapParamGroupIn(track, plugin, ord, group, buf) ==
    IF ord = << >> THEN buf
    ELSE MapParamGroupIn(track, plugin, Tail(ord), group,
            MapParam(track, plugin, group, Head(ord).k, Head(ord).v,
                     pick_best_param(plugin, Head(ord).k), buf))

\* every result map_param_group can produce: one per enumeration order
map_param_group(track, plugin, params, group, buf) ==
    { MapParamGroupIn(track, plugin, ord, group, buf) : ord \in EnumOrders(params) }

map_effect_group(track, plugin, effect, buf) ==
    map_param_group(track, plugin, effect.parameters, <<"e","f","f","e","c","t",":">> \o effect.effect_type, buf)

\* filter_map over the eq HashMap enumerated in the order ord
RECURSIVE ParsedPoints(_)
ParsedPoints(ord) ==
    IF ord = << >> THEN << >>
    ELSE Let(parse_frequency_hz(Head(ord).k), LAMBDA hz :
            IF hz.ok THEN << [hz |-> hz.v, db |-> Head(ord).v] >> ELSE << >>)
         \o ParsedPoints(Tail(ord))

\* b.1.abs().partial_cmp(&a.1.abs()): TRUE when a must come after b
AbsDbLess(a, b) == f_lt(f_abs(a.db), f_abs(b.db))

\* stable insertion of p into a sequence already sorted by |dB| descending
RECURSIVE InsertByAbsDb(_, _)
InsertByAbsDb(sorted, p) ==
    IF sorted = << >> THEN <<p>>
    ELSE IF AbsDbLess(sorted[Len(sorted)], p)
        THEN Append(InsertByAbsDb(SubSeq(sorted, 1, Len(sorted) - 1), p), sorted[Len(sorted)])
    ELSE Append(sorted, p)

\* faulty variant: the points stay in enumeration order
KeepOrder(points) == points

RECURSIVE StableSortByAbsDb(_)
StableSortByAbsDb(points) ==
    IF points = << >> THEN << >>
    ELSE InsertByAbsDb(StableSortByAbsDb(SubSeq(points, 1, Len(points) - 1)),
                       points[Len(points)])

\* sort_by with a comparator that answers Equal for NaN is no total order:
\* the resulting order is then unspecified
SortedPoints(points) ==
    IF \E i \in 1..Len(points) : is_nan(points[i].db)
    THEN { [i \in 1..Len(points) |-> points[q[i]]] : q \in Perms(1..Len(points)) }
    ELSE { StableSortByAbsDb(points) }

\* faulty variant: one element too few is kept
TruncateShort(s, n) == SubSeq(s, 1, (IF Len(s) < n THEN Len(s) ELSE n) - 1)

Truncate(s, n) == SubSeq(s, 1, IF Len(s) < n THEN Len(s) ELSE n)

\* ascending sequence of a finite set of integers
RECURSIVE SortedInts(_)
SortedInts(S) ==
    IF S = {} THEN << >>
    ELSE Let(MinOf(S), LAMBDA m : <<m>> \o SortedInts(S \ {m}))

\* band -> position of the last parameter of that band (HashMap insert
\* overwrites) whose folded name contains "freq", or "gain" and not "freq"
IsBandParam(p, isFreq) ==
    /\ parse_reaeq_band_number(p.name) >= 0
    /\ Let(normalize_token(p.name), LAMBDA name_norm :
            IF isFreq THEN str_contains(name_norm, <<"f","r","e","q">>)
            ELSE ~str_contains(name_norm, <<"f","r","e","q">>) /\ str_contains(name_norm, <<"g","a","i","n">>))

BandOf(plugin, i) == parse_reaeq_band_number(plugin.parameters[i].name)

BandParams(plugin, isFreq) ==
    Let({ i \in 1..Len(plugin.parameters) : IsBandParam(plugin.parameters[i], isFreq) },
        LAMBDA idx :
            [b \in { BandOf(plugin, i) : i \in idx } |->
                MaxOf({ i \in idx : BandOf(plugin, i) = b })])

\* the two actions of one (point, band) pair
EqBand(track, plugin, band, point, freq_param, gain_param, buf) ==
    Push(Push(buf,
        SetParameter(track, plugin.index, freq_param.index, freq_param.name,
            hz_to_normalized_log(point.hz),
            Msg("eq :: set band {} freq to {:.0} Hz", <<IntToStr(band), FloatToStr(point.hz)>>))),
        SetParameter(track, plugin.index, gain_param.index, gain_param.name,
            db_to_normalized(point.db, EqMaxAbsDb),
            Msg("eq :: set band {} gain to {:+.1} dB", <<IntToStr(band), FloatToStr(point.db)>>)))

\* the zip loop of map_eq_reaeq over points and ascending bands
RECURSIVE EqZip(_, _, _, _, _, _, _)
EqZip(track, plugin, points, bands, freqs, gains, buf) ==
    IF points = << >> \/ bands = << >> THEN buf
    ELSE IF Head(bands) \notin DOMAIN gains
    THEN EqZip(track, plugin, Tail(points), Tail(bands), freqs, gains, buf)
    ELSE EqZip(track, plugin, Tail(points), Tail(bands), freqs, gains,
            EqBand(track, plugin, Head(bands), Head(points),
                   plugin.parameters[freqs[Head(bands)]],
                   plugin.parameters[gains[Head(bands)]], buf))

\* map_eq_reaeq for one enumeration order and one sort result
MapEqBands(track, plugin, points, freqs, gains, buf) ==
    IF points = << >>
    THEN Warn(buf, Msg("EQ map: no parsable frequency keys found; skipped", << >>))
    ELSE IF DOMAIN freqs = {} \/ DOMAIN gains = {}
    THEN Warn(buf, Msg("EQ map: '{}' does not look like ReaEQ band params; skipped",
                       <<plugin.name>>))
    ELSE EqZip(track, plugin, points, SortedInts(DOMAIN freqs), freqs, gains, buf)

MapEqReaeqWith(track, plugin, sorted, max_points, buf) ==
    MapEqBands(track, plugin, Truncate(sorted, max_points),
               BandParams(plugin, TRUE), BandParams(plugin, FALSE), buf)

map_eq_reaeq(track, plugin, eq, max_points, buf) ==
    UNION { { MapEqReaeqWith(track, plugin, sorted, max_points, buf) :
                sorted \in SortedPoints(ParsedPoints(ord)) } : ord \in EnumOrders(eq) }

\* --- the five sections of ChainMapper::map; each yields the set of buffers
\* --- the section can leave behind

\* the EnablePlugin a section pushes in front of its parameters
EnableFirst(snap, plugin, needed, reason, buf) ==
    IF ~plugin.enabled /\ needed
    THEN Push(buf, EnablePlugin(snap.track_index, plugin.index, plugin.name, reason))
    ELSE buf

\* faulty variant: the LoadPlugin is pushed without raising requires_resnapshot
LoadWithoutFlag(snap, plugin_name, reason, buf) ==
    Push(buf, LoadPlugin(snap.track_index, plugin_name, reason))

\* a LoadPlugin of a default plugin; the call then asks for a resnapshot
LoadDefault(snap, plugin_name, reason, buf) ==
    [Push(buf, LoadPlugin(snap.track_index, plugin_name, reason))
     EXCEPT !.requires_resnapshot = TRUE]

AmpSection(cfg, tone, snap, buf) ==
    Let(pick_best_plugin(snap, role_keywords_amp), LAMBDA pi :
        IF pi # 0
        THEN map_param_group(snap.track_index, snap.plugins[pi], tone.amp, <<"a","m","p">>,
                EnableFirst(snap, snap.plugins[pi], tone.amp # {},
                    Msg("Enable amp plugin for tone mapping", << >>), buf))
        ELSE IF tone.amp # {}
        THEN { Warn(buf, Msg("No suitable amp plugin found; amp parameters were not applied",
                             << >>)) }
        ELSE { buf })

\* faulty variant: allow_load_plugins is not consulted
EffectMissingLoads(cfg, effect, role, snap, buf) ==
    IF default_plugin_for_effect(role) # NoDefault
    THEN [Push(buf, LoadPlugin(snap.track_index, default_plugin_for_effect(role),
                Msg("Load missing effect plugin for '{}'", <<effect.effect_type>>)))
          EXCEPT !.requires_resnapshot = TRUE]
    ELSE Warn(buf, Msg("No suitable plugin found for effect '{}'; skipped",
                       <<effect.effect_type>>))

\* the effect has no plugin in the snapshot
EffectMissing(cfg, effect, role, snap, buf) ==
    IF cfg.allow_load_plugins /\ default_plugin_for_effect(role) # NoDefault
    THEN LoadDefault(snap, default_plugin_for_effect(role),
            Msg("Load missing effect plugin for '{}'", <<effect.effect_type>>), buf)
    ELSE Warn(buf, Msg("No suitable plugin found for effect '{}'; skipped",
                       <<effect.effect_type>>))

\* one iteration of the loop over tone.effects
EffectStep(cfg, effect, snap, buf) ==
    Let2(normalize_token(effect.effect_type),
         pick_best_plugin(snap, role_keywords_for_effect(normalize_token(effect.effect_type))),
         LAMBDA role, pi :
            IF pi # 0
            THEN map_effect_group(snap.track_index, snap.plugins[pi], effect,
                    EnableFirst(snap, snap.plugins[pi], effect.parameters # {},
                        Msg("Enable '{}' plugin for tone mapping", <<effect.effect_type>>), buf))
            ELSE { EffectMissing(cfg, effect, role, snap, buf) })

RECURSIVE EffectsFrom(_, _, _, _, _)
EffectsFrom(cfg, effects, i, snap, bufs) ==
    IF i > Len(effects) THEN bufs
    ELSE EffectsFrom(cfg, effects, i + 1, snap,
            UNION { EffectStep(cfg, effects[i], snap, b) : b \in bufs })

EffectsSection(cfg, tone, snap, buf) == EffectsFrom(cfg, tone.effects, 1, snap, {buf})

\* reverb and delay share one shape
UnitSection(cfg, params, snap, keywords, group, enableMsg, defaultName, loadMsg, missMsg, buf) ==
    IF params = {} THEN { buf }
    ELSE Let(pick_best_plugin(snap, keywords), LAMBDA pi :
            IF pi # 0
            THEN map_param_group(snap.track_index, snap.plugins[pi], params, group,
                    EnableFirst(snap, snap.plugins[pi], TRUE, Msg(enableMsg, << >>), buf))
            ELSE IF cfg.allow_load_plugins
            THEN { LoadDefault(snap, defaultName, Msg(loadMsg, << >>), buf) }
            ELSE { Warn(buf, Msg(missMsg, << >>)) })

ReverbSection(cfg, tone, snap, buf) ==
    UnitSection(cfg, tone.reverb, snap, role_keywords_reverb, <<"r","e","v","e","r","b">>,
                "Enable reverb plugin for tone mapping", DefaultReaVerbate,
                "Load missing reverb plugin", "No suitable reverb plugin found; skipped", buf)

DelaySection(cfg, tone, snap, buf) ==
    UnitSection(cfg, tone.delay, snap, role_keywords_delay, <<"d","e","l","a","y">>,
                "Enable delay plugin for tone mapping", DefaultReaDelay,
                "Load missing delay plugin", "No suitable delay plugin found; skipped", buf)

\* the EQ section once a plugin was picked
EqMapped(cfg, tone, snap, plugin, buf) ==
    IF contains_token(plugin.name, <<"r","e","a","e","q">>)
    THEN map_eq_reaeq(snap.track_index, plugin, tone.eq, cfg.max_eq_points, buf)
    ELSE { Warn(buf, Msg("EQ plugin '{}' is not supported by deterministic mapper yet; EQ skipped",
                         <<plugin.name>>)) }

EqSection(cfg, tone, snap, buf) ==
    IF tone.eq = {} THEN { buf }
    ELSE Let(pick_best_plugin(snap, role_keywords_eq), LAMBDA pi :
            IF pi # 0
            THEN EqMapped(cfg, tone, snap, snap.plugins[pi],
                    EnableFirst(snap, snap.plugins[pi], TRUE,
                        Msg("Enable EQ plugin for tone mapping", << >>), buf))
            ELSE IF cfg.allow_load_plugins
            THEN { LoadDefault(snap, DefaultReaEQ, Msg("Load missing EQ plugin", << >>), buf) }
            ELSE { Warn(buf, Msg("No suitable EQ plugin found; skipped", << >>)) })

\* ------------------------------------------------------ ensure_prerequisites
\* plugin_enabled.get(idx): "absent", or the enabled flag of the plugin that
\* the collected HashMap holds for idx (the last one with that index)
PluginEnabledAt(snap, idx) ==
    Let({ i \in 1..Len(snap.plugins) : snap.plugins[i].index = idx }, LAMBDA hits :
        IF hits = {} THEN "absent"
        ELSE IF snap.plugins[MaxOf(hits)].enabled THEN "enabled" ELSE "disabled")

HasEnable(actions) ==
    { actions[i].plugin_index : i \in { j \in 1..Len(actions) : actions[j].type = "EnablePlugin" } }

NeedsEnable(actions, snap) ==
    { actions[i].plugin_index : i \in
        { j \in 1..Len(actions) :
            /\ actions[j].type = "SetParameter"
            /\ PluginEnabledAt(snap, actions[j].plugin_index) = "disabled"
            /\ actions[j].plugin_index \notin HasEnable(actions) } }

AutoEnable(snap, buf, plugin) ==
    Push(Warn(buf,
            Msg("Plugin '{}' was disabled but has SetParameter actions; inserting EnablePlugin",
                <<plugin.name>>)),
         EnablePlugin(snap.track_index, plugin.index, plugin.name,
            Msg("Auto-enable plugin because parameters will be set", << >>)))

\* the loop over needs_enable, enumerated in the order ord
RECURSIVE AutoEnableIn(_, _, _)
AutoEnableIn(ord, snap, buf) ==
    IF ord = << >> THEN buf
    ELSE Let({ i \in 1..Len(snap.plugins) : snap.plugins[i].index = Head(ord) }, LAMBDA hits :
            IF hits = {} THEN AutoEnableIn(Tail(ord), snap, buf)
            ELSE AutoEnableIn(Tail(ord), snap,
                    AutoEnable(snap, buf, snap.plugins[MinOf(hits)])))

IsGateParam(p) == gate_kind(p.name) # "None"

GateOf(p) ==
    [param_index |-> p.index, param_name |-> p.name,
     current_value |-> p.current_value, kind |-> gate_kind(p.name),
     module_tokens |-> module_tokens(p.name)]

\* the gate parameters of one plugin, in parameter order
PluginGatesOf(plugin) ==
    Let(SelectSeq(plugin.parameters, IsGateParam), LAMBDA gated :
        << >> \o [i \in 1..Len(gated) |-> GateOf(gated[i])])

\* plugin_gates.get(idx): the gates of the last plugin with index idx that has
\* any gate; << >> stands for None
PluginGatesAt(snap, idx) ==
    Let({ i \in 1..Len(snap.plugins) :
            snap.plugins[i].index = idx /\ \E j \in 1..Len(snap.plugins[i].parameters) :
                IsGateParam(snap.plugins[i].parameters[j]) }, LAMBDA hits :
        IF hits = {} THEN << >> ELSE PluginGatesOf(snap.plugins[MaxOf(hits)]))

GateByOverlap(gates, target_tokens) ==
    IF target_tokens # {}
    THEN BestFrom([i \in 1..Len(gates) |->
                    Cardinality(gates[i].module_tokens \cap target_tokens)], 1, 0, 0)
    ELSE 0

GateFallback(gates) ==
    IF Len(gates) = 1 THEN 1
    ELSE Let({ i \in 1..Len(gates) : gates[i].module_tokens = {} }, LAMBDA globals :
            IF globals = {} THEN 0 ELSE MinOf(globals))

\* faulty variant: no fallback when no gate overlaps
ChooseGateNoFallback(gates, param_name) == GateByOverlap(gates, module_tokens(param_name))

\* the gate chosen for a parameter name among gates: position in gates, 0 for None
ChooseGate(gates, param_name) ==
    Let(GateByOverlap(gates, module_tokens(param_name)), LAMBDA byOverlap :
        IF byOverlap # 0 THEN byOverlap ELSE GateFallback(gates))

\* the gate to toggle for the SetParameter a: position in gates, 0 for none
GateFor(a, gates) ==
    IF gates = << >> THEN 0
    ELSE IF \E g \in 1..Len(gates) : gates[g].param_index = a.param_index THEN 0
    ELSE ChooseGate(gates, a.param_name)

\* the loop over the actions that collects the section toggles
RECURSIVE GateLoop(_, _, _, _, _, _)
\* the toggle for one action whose gate was found
GateInsert(actions, i, snap, inserted, extra, warnings, a, gate) ==
    IF <<a.plugin_index, gate.param_index>> \in inserted \/ ~gate_is_inactive(gate)
    THEN GateLoop(actions, i + 1, snap, inserted, extra, warnings)
    ELSE GateLoop(actions, i + 1, snap,
            inserted \cup { <<a.plugin_index, gate.param_index>> },
            Append(extra,
                SetParameter(a.track, a.plugin_index, gate.param_index, gate.param_name,
                    gate_enable_value(gate),
                    Msg("Auto-enable section for '{}'", <<a.param_name>>))),
            Append(warnings,
                Msg("Section gate '{}' appears inactive; inserting toggle before setting '{}'",
                    <<gate.param_name, a.param_name>>)))

GateLoop(actions, i, snap, inserted, extra, warnings) ==
    IF i > Len(actions) THEN [extra |-> extra, warnings |-> warnings]
    ELSE IF actions[i].type # "SetParameter"
    THEN GateLoop(actions, i + 1, snap, inserted, extra, warnings)
    ELSE Let(PluginGatesAt(snap, actions[i].plugin_index), LAMBDA gates :
            Let(GateFor(actions[i], gates), LAMBDA gi :
                IF gi = 0 THEN GateLoop(actions, i + 1, snap, inserted, extra, warnings)
                ELSE GateInsert(actions, i, snap, inserted, extra, warnings,
                                actions[i], gates[gi])))

\* ensure_prerequisites for one enumeration order of needs_enable
EnsurePrerequisitesIn(ord, snap, buf) ==
    Let(AutoEnableIn(ord, snap, buf), LAMBDA b1 :
        Let(GateLoop(b1.actions, 1, snap, {}, << >>, b1.warnings), LAMBDA g :
            [b1 EXCEPT !.actions = @ \o g.extra, !.warnings = g.warnings]))

ensure_prerequisites(buf, snap) ==
    { EnsurePrerequisitesIn(ord, snap, buf) : ord \in EnumOrders(NeedsEnable(buf.actions, snap)) }

\* ------------------------------------------------------------- plan_actions
\* value hygiene of one SetParameter value: [v, warnings]
\* the range clamp of the (by now finite) value v1, after the warnings w1
HygieneRange(v1, w1) ==
    IF f_lt(v1, Fin(0))
    THEN [v |-> Fin(0),
          warnings |-> Append(w1, Msg("Value {} < 0.0; clamped to 0.0", <<FloatToStr(v1)>>))]
    ELSE IF f_gt(v1, Fin(Unit))
    THEN [v |-> Fin(Unit),
          warnings |-> Append(w1, Msg("Value {} > 1.0; clamped to 1.0", <<FloatToStr(v1)>>))]
    ELSE [v |-> v1, warnings |-> w1]

\* faulty variant: no value hygiene at all
HygieneNone(value) == [v |-> value, warnings |-> << >>]

Hygiene(value) ==
    IF ~is_finite(value)
    THEN HygieneRange(Fin(Unit \div 2),
            << Msg("Non-finite parameter value encountered; clamping to 0.5", << >>) >>)
    ELSE HygieneRange(value, << >>)

RECURSIVE HygieneWarnings(_, _)
HygieneWarnings(actions, i) ==
    IF i > Len(actions) THEN << >>
    ELSE (IF actions[i].type = "SetParameter" THEN Hygiene(actions[i].value).warnings ELSE << >>)
         \o HygieneWarnings(actions, i + 1)

ClampValues(actions) ==
    [i \in 1..Len(actions) |->
        IF actions[i].type = "SetParameter"
        THEN [actions[i] EXCEPT !.value = Hygiene(actions[i].value).v]
        ELSE actions[i]]

SetKey(a) == <<a.track, a.plugin_index, a.param_index>>

\* faulty variant: the first SetParameter of a target is the one kept
IsFirstSet(actions, i) ==
    \A j \in 1..(i - 1) :
        ~(actions[j].type = "SetParameter" /\ SetKey(actions[j]) = SetKey(actions[i]))

\* keep every non-SetParameter and, per (track, plugin, param), the last SetParameter
IsLastSet(actions, i) ==
    \A j \in (i + 1)..Len(actions) :
        ~(actions[j].type = "SetParameter" /\ SetKey(actions[j]) = SetKey(actions[i]))

RECURSIVE Deduplicate(_, _)
Deduplicate(actions, i) ==
    IF i > Len(actions) THEN << >>
    ELSE (IF actions[i].type # "SetParameter" \/ IsLastSet(actions, i)
          THEN << actions[i] >> ELSE << >>)
         \o Deduplicate(actions, i + 1)

\* faulty variant: the action type is left out of the sort key
type_rank_flat(a) == 0

type_rank(a) ==
    IF a.type = "LoadPlugin" THEN 0 ELSE IF a.type = "EnablePlugin" THEN 1 ELSE 2

plugin_rank(a) == IF a.type = "LoadPlugin" THEN -1 ELSE a.plugin_index

\* faulty variant: gate parameters are ranked like any other parameter
set_rank_flat(a) == IF a.type = "SetParameter" THEN 1 ELSE 0

set_rank(a) ==
    IF a.type = "SetParameter"
    THEN Let(normalize_token(a.param_name), LAMBDA n :
            IF \/ str_contains(n, <<"b","y","p","a","s","s">>) \/ str_contains(n, <<"e","n","a","b","l","e">>)
               \/ str_contains(n, <<"e","n","a","b","l","e","d">>) \/ str_contains(n, <<"a","c","t","i","v","e">>)
               \/ str_ends_with(n, <<"o","n">>)
            THEN 0 ELSE 1)
    ELSE 0

\* faulty variant: the input index is counted from the end
SortKeyReversed(filtered, i) ==
    <<type_rank(filtered[i]), plugin_rank(filtered[i]), set_rank(filtered[i]), 0 - i>>

SortKey(filtered, i) ==
    <<type_rank(filtered[i]), plugin_rank(filtered[i]), set_rank(filtered[i]), i>>

\* lexicographic order on the 4-tuples
KeyLess(ka, kb) ==
    \E p \in 1..4 : ka[p] < kb[p] /\ \A q \in 1..(p - 1) : ka[q] = kb[q]

RECURSIVE SortIndices(_, _)
SortIndices(filtered, S) ==
    IF S = {} THEN << >>
    ELSE Let(CHOOSE i \in S :
                \A j \in S \ {i} : KeyLess(SortKey(filtered, i), SortKey(filtered, j)),
             LAMBDA m : << filtered[m] >> \o SortIndices(filtered, S \ {m}))

\* faulty variant: the comparator's result is inverted
SortBackwards(filtered) == Reverse(SortIndices(filtered, 1..Len(filtered)))

SortActions(filtered) == SortIndices(filtered, 1..Len(filtered))

plan_actions(buf) ==
    [buf EXCEPT !.actions = SortActions(Deduplicate(ClampValues(buf.actions), 1)),
                !.warnings = @ \o HygieneWarnings(buf.actions, 1)]

\* ------------------------------------------------------------ build_summary
CountType(actions, t) == Cardinality({ i \in 1..Len(actions) : actions[i].type = t })

SummaryPart(count, fmt) ==
    IF count > 0 THEN << Msg(fmt, <<IntToStr(count)>>) >> ELSE << >>

SummaryParts(actions) ==
    SummaryPart(CountType(actions, "LoadPlugin"), "load {} plugin(s)")
    \o SummaryPart(CountType(actions, "EnablePlugin"), "enable {} plugin(s)")
    \o SummaryPart(CountType(actions, "SetParameter"), "set {} parameter(s)")

build_summary(actions, requires_resnapshot) ==
    Let(SummaryParts(actions), LAMBDA parts :
        (IF parts = << >> THEN << Msg("no actions", << >>) >> ELSE parts)
        \o (IF requires_resnapshot THEN << Msg("requires resnapshot", << >>) >> ELSE << >>))

\* ------------------------------------------------------------ ChainMapper::map
Through(Section(_, _, _, _), cfg, toneParams, snap, bufs) ==
    UNION { Section(cfg, toneParams, snap, b) : b \in bufs }

\* the candidate buffers the five sections can leave, over every enumeration
\* order of the tone's maps
MapCandidates(cfg, toneParams, snap) ==
    Through(EqSection, cfg, toneParams, snap,
      Through(DelaySection, cfg, toneParams, snap,
        Through(ReverbSection, cfg, toneParams, snap,
          Through(EffectsSection, cfg, toneParams, snap,
            AmpSection(cfg, toneParams, snap, EmptyBuf)))))

MappingResult(b) ==
    [actions |-> b.actions, summary |-> build_summary(b.actions, b.requires_resnapshot),
     warnings |-> b.warnings, requires_resnapshot |-> b.requires_resnapshot]

\* the buffers after ensure_prerequisites, before plan_actions
Prepared(cfg, toneParams, snap) ==
    UNION { ensure_prerequisites(c, snap) : c \in MapCandidates(cfg, toneParams, snap) }

\* every ChainMappingResult map can return for these arguments
map(cfg, toneParams, snap) ==
    { MappingResult(plan_actions(p)) : p \in Prepared(cfg, toneParams, snap) }

\* ------------------------------------------------------------------ inputs
Param(index, name, current_value) ==
    [index |-> index, name |-> name, current_value |-> current_value]

Plugin(index, name, enabled, parameters) ==
    [index |-> index, name |-> name, enabled |-> enabled, parameters |-> parameters]

Half == Fin(Unit \div 2)

\* plugin chains are drawn from these plugins, kept in this order
PluginCatalog ==
    << [name |-> <<"V","S","T","3",":"," ","N","e","u","r","a","l"," ","D","S","P"," ","A","r","c","h","e","t","y","p","e">>,
        parameters |-> << Param(0, <<"G","a","i","n">>, Half), Param(1, <<"P","r","e","s","e","n","c","e">>, Half) >>],
       [name |-> <<"V","S","T","3",":"," ","A","m","p"," ","S","i","m">>,
        parameters |-> << Param(10, <<"E","Q"," ","B","y","p","a","s","s">>, Fin(Unit)), Param(11, <<"E","Q"," ","G","a","i","n">>, Half),
                          Param(12, <<"D","i","s","t","o","r","t","i","o","n">>, Fin(0)), Param(13, <<"D","i","s","t","o","r","t","i","o","n"," ","T","o","n","e">>, Half) >>],
       [name |-> <<"R","e","a","G","a","t","e"," ","(","C","o","c","k","o","s",")">>,
        parameters |-> << Param(0, <<"T","h","r","e","s","h","o","l","d">>, Half), Param(1, <<"A","t","t","a","c","k">>, Half) >>],
       [name |-> <<"R","e","a","V","e","r","b","a","t","e"," ","(","C","o","c","k","o","s",")">>,
        parameters |-> << Param(0, <<"W","e","t">>, Half), Param(1, <<"R","o","o","m"," ","s","i","z","e">>, Half),
                          Param(2, <<"A","c","t","i","v","e">>, Fin(Unit)), Param(3, <<"D","r","y","/","W","e","t">>, Half) >>],
       [name |-> <<"R","e","a","D","e","l","a","y"," ","(","C","o","c","k","o","s",")">>,
        parameters |-> << Param(0, <<"W","e","t">>, Half), Param(1, <<"F","e","e","d","b","a","c","k">>, Half),
                          Param(2, <<"E","n","a","b","l","e","d">>, Fin(0)) >>],
       [name |-> <<"R","e","a","E","Q"," ","(","C","o","c","k","o","s",")">>,
        parameters |-> << Param(0, <<"B","a","n","d"," ","1"," ","F","r","e","q">>, Half), Param(1, <<"B","a","n","d"," ","1"," ","G","a","i","n">>, Half),
                          Param(2, <<"B","a","n","d"," ","2"," ","F","r","e","q">>, Half), Param(3, <<"B","a","n","d"," ","2"," ","G","a","i","n">>, Half),
                          Param(4, <<"B","y","p","a","s","s">>, Fin(Unit)) >>],
       [name |-> <<"P","r","o","-","Q"," ","3">>,
        parameters |-> << Param(0, <<"B","a","n","d"," ","1"," ","F","r","e","q","u","e","n","c","y">>, Half), Param(1, <<"B","a","n","d"," ","1"," ","G","a","i","n">>, Half) >>],
       [name |-> <<"R","e","a","E","Q"," ","L","i","t","e">>,
        parameters |-> << Param(0, <<"B","a","n","d"," ","1"," ","F","r","e","q">>, Half), Param(1, <<"B","a","n","d"," ","2"," ","F","r","e","q">>, Half),
                          Param(2, <<"B","a","n","d"," ","2"," ","G","a","i","n">>, Half) >>] >>

\* the chain holding the catalog plugins picked (ascending), slot indices
\* 0, 1, ... in chain order, the plugins in `off` disabled
ChainOf(picked, off) ==
    Let(SortedInts(picked), LAMBDA order :
        << >> \o [i \in 1..Len(order) |->
            Plugin(i - 1, PluginCatalog[order[i]].name, order[i] \notin off,
                   PluginCatalog[order[i]].parameters)])

Chains ==
    { ChainOf(picked, off) :
        <<picked, off>> \in
            { po \in (SUBSET (1..Len(PluginCatalog))) \X (SUBSET (1..Len(PluginCatalog))) :
                /\ Cardinality(po[1]) <= MaxPlugins
                /\ po[2] \subseteq po[1]
                /\ Cardinality(po[2]) <= 1 } }

TrackIndex == 0
Snapshot(plugins) == [track_index |-> TrackIndex, plugins |-> plugins]
Snapshots == { Snapshot(c) : c \in Chains }

KV(k, v) == [k |-> k, v |-> v]
DistinctKeys(m) == \A a, b \in m : a.k = b.k => a = b

AmpEntries ==
    { KV(<<"g","a","i","n">>, Fin(900)), KV(<<"p","r","e","s","e","n","c","e">>, Fin(1500)), KV(<<"t","r","e","b","l","e">>, NaN),
      KV(<<"t","o","n","e">>, Fin(-200)), KV(<<"d","i","s","t","o","r","t","i","o","n">>, Fin(400)) }

ReverbEntries == { KV(<<"m","i","x">>, Fin(300)), KV(<<"r","o","o","m","_","s","i","z","e">>, PosInf) }
DelayEntries == { KV(<<"m","i","x">>, Fin(300)), KV(<<"t","i","m","e">>, Fin(400)) }
EqEntries ==
    { KV(<<"8","0","0","H","z">>, Fin(-4)), KV(<<"2","k","H","z">>, Fin(4)), KV(<<"a","b","c">>, Fin(1)), KV(<<"n","a","n","H","z">>, Fin(30)) }

Effect(effect_type, parameters) == [effect_type |-> effect_type, parameters |-> parameters]

EffectCatalog ==
    { Effect(<<"n","o","i","s","e","_","g","a","t","e">>, { KV(<<"t","h","r","e","s","h","o","l","d">>, Fin(300)) }),
      Effect(<<"G","a","t","e">>, { KV(<<"T","h","r","e","s","h">>, Fin(2500)), KV(<<"a","t","t","a","c","k">>, Fin(100)) }),
      Effect(<<"w","a","h">>, { KV(<<"m","i","x">>, Fin(500)) }),
      Effect(<<"n","o","i","s","e","_","g","a","t","e">>, {}) }

RECURSIVE SeqsUpTo(_, _)
SeqsUpTo(S, n) ==
    IF n = 0 THEN { << >> }
    ELSE SeqsUpTo(S, n - 1)
         \cup { Append(s, e) : s \in { t \in SeqsUpTo(S, n - 1) : Len(t) = n - 1 }, e \in S }

\* an effect without parameters weighs as much as one parameter
RECURSIVE SumLens(_, _)
SumLens(effects, i) ==
    IF i > Len(effects) THEN 0
    ELSE (IF effects[i].parameters = {} THEN 1 ELSE Cardinality(effects[i].parameters))
         + SumLens(effects, i + 1)

Tone(amp, eq, effects, reverb, delay) ==
    [amp |-> amp, eq |-> eq, effects |-> effects, reverb |-> reverb, delay |-> delay]

ToneWeight(t) ==
    Cardinality(t.amp) + Cardinality(t.eq) + Cardinality(t.reverb) + Cardinality(t.delay)
    + SumLens(t.effects, 1)

Small(S) == { m \in SUBSET S : Cardinality(m) <= MaxToneWeight }

Tones ==
    { t \in { Tone(amp, eq, effects, reverb, delay) :
                amp \in Small(AmpEntries), eq \in Small(EqEntries),
                effects \in SeqsUpTo(EffectCatalog, MaxToneWeight),
                reverb \in Small(ReverbEntries), delay \in Small(DelayEntries) } :
        ToneWeight(t) <= MaxToneWeight }

DefaultMaxEqPoints == 4
Config(allow_load_plugins, max_eq_points) ==
    [allow_load_plugins |-> allow_load_plugins, max_eq_points |-> max_eq_points]
DefaultConfig == Config(TRUE, DefaultMaxEqPoints)
Configs == { Config(a, m) : a \in BOOLEAN, m \in {1, DefaultMaxEqPoints} }

\* ------------------------------------------------------------ tone_sanitizer
MaxUnitKeys == 32
MaxEqPoints == 16
MaxEffects == 5
MaxParamsPerEffect == 24
EqClampDb == 12

\* a match over string patterns: rows of <<patterns, result>>; << >> for no arm
MatchArm(k, rows) ==
    IF \E i \in 1..Len(rows) : k \in rows[i][1]
    THEN rows[CHOOSE i \in 1..Len(rows) :
                k \in rows[i][1] /\ \A j \in 1..(i - 1) : k \notin rows[j][1]][2]
    ELSE << >>

canonical_effect_type(effect_type) ==
    Let(MatchArm(san_normalize_token(effect_type),
            << << {<<"n","o","i","s","e","g","a","t","e">>, <<"g","a","t","e">>, <<"n","o","i","s","e","_","g","a","t","e">>}, <<"n","o","i","s","e","_","g","a","t","e">> >>,
               << {<<"o","v","e","r","d","r","i","v","e">>, <<"o","d">>, <<"t","u","b","e","s","c","r","e","a","m","e","r">>, <<"s","c","r","e","a","m","e","r">>}, <<"o","v","e","r","d","r","i","v","e">> >>,
               << {<<"d","i","s","t","o","r","t","i","o","n">>, <<"d","i","s","t">>, <<"f","u","z","z">>}, <<"d","i","s","t","o","r","t","i","o","n">> >>,
               << {<<"c","o","m","p","r","e","s","s","o","r">>, <<"c","o","m","p">>}, <<"c","o","m","p","r","e","s","s","o","r">> >>,
               << {<<"c","h","o","r","u","s">>}, <<"c","h","o","r","u","s">> >>,
               << {<<"p","h","a","s","e","r">>}, <<"p","h","a","s","e","r">> >> >>),
        LAMBDA hit : IF hit = << >> THEN effect_type ELSE hit)

MixArm == << {<<"m","i","x">>, <<"w","e","t">>, <<"d","r","y","w","e","t">>, <<"b","l","e","n","d">>}, <<"m","i","x">> >>
ThresholdArm == << {<<"t","h","r","e","s","h","o","l","d">>, <<"t","h","r","e","s","h">>}, <<"t","h","r","e","s","h","o","l","d">> >>
AttackArm == << {<<"a","t","t","a","c","k">>, <<"a","t","t">>}, <<"a","t","t","a","c","k">> >>
ReleaseArm == << {<<"r","e","l","e","a","s","e">>, <<"r","e","l">>}, <<"r","e","l","e","a","s","e">> >>
LevelArm == << {<<"l","e","v","e","l">>, <<"o","u","t","p","u","t">>, <<"v","o","l","u","m","e">>}, <<"l","e","v","e","l">> >>
TimeArm == << {<<"t","i","m","e">>, <<"m","s">>, <<"s","e","c","o","n","d","s">>, <<"s","e","c">>}, <<"t","i","m","e">> >>
FeedbackArm == << {<<"f","e","e","d","b","a","c","k">>, <<"f","b">>}, <<"f","e","e","d","b","a","c","k">> >>

EffectPrefix == <<"e","f","f","e","c","t",":">>

\* the effect types that have a vocabulary of their own
KnownEffectTypes ==
    {<<"n","o","i","s","e","_","g","a","t","e">>, <<"n","o","i","s","e","g","a","t","e">>, <<"g","a","t","e">>, <<"c","o","m","p","r","e","s","s","o","r">>, <<"c","o","m","p">>, <<"o","v","e","r","d","r","i","v","e">>, <<"o","d">>,
     <<"d","i","s","t","o","r","t","i","o","n">>, <<"d","i","s","t">>, <<"f","u","z","z">>, <<"c","h","o","r","u","s">>}

\* the text after "effect:", folded
EffectTypeOf(group) == san_normalize_token(SubSeq(group, Len(EffectPrefix) + 1, Len(group)))

\* the arms of an "effect:<type>" group whose folded type et is a known one
EffectParamKey(et, k) ==
    IF et \in {<<"n","o","i","s","e","_","g","a","t","e">>, <<"n","o","i","s","e","g","a","t","e">>, <<"g","a","t","e">>}
    THEN MatchArm(k, << ThresholdArm, AttackArm,
                        << {<<"r","e","l","e","a","s","e">>, <<"r","e","l">>, <<"d","e","c","a","y">>}, <<"r","e","l","e","a","s","e">> >> >>)
    ELSE IF et \in {<<"c","o","m","p","r","e","s","s","o","r">>, <<"c","o","m","p">>}
    THEN MatchArm(k, << ThresholdArm, AttackArm, ReleaseArm, << {<<"r","a","t","i","o">>}, <<"r","a","t","i","o">> >>,
                        MixArm,
                        << {<<"m","a","k","e","u","p">>, <<"m","a","k","e","u","p","g","a","i","n">>, <<"g","a","i","n">>, <<"o","u","t","p","u","t">>, <<"l","e","v","e","l">>}, <<"m","a","k","e","u","p">> >> >>)
    ELSE IF et \in {<<"o","v","e","r","d","r","i","v","e">>, <<"o","d">>}
    THEN MatchArm(k, << << {<<"d","r","i","v","e">>, <<"g","a","i","n">>}, <<"d","r","i","v","e">> >>,
                        << {<<"t","o","n","e">>, <<"t","r","e","b","l","e">>}, <<"t","o","n","e">> >>, LevelArm >>)
    ELSE IF et \in {<<"d","i","s","t","o","r","t","i","o","n">>, <<"d","i","s","t">>, <<"f","u","z","z">>}
    THEN MatchArm(k, << << {<<"d","r","i","v","e">>, <<"g","a","i","n">>}, <<"d","r","i","v","e">> >>, << {<<"t","o","n","e">>}, <<"t","o","n","e">> >>,
                        LevelArm,
                        << {<<"l","o","w">>, <<"l","o","w","s">>, <<"b","a","s","s">>}, <<"l","o","w">> >>,
                        << {<<"h","i","g","h">>, <<"h","i","g","h","s">>, <<"t","r","e","b","l","e">>}, <<"h","i","g","h">> >> >>)
    ELSE MatchArm(k, << << {<<"r","a","t","e">>}, <<"r","a","t","e">> >>, << {<<"d","e","p","t","h">>}, <<"d","e","p","t","h">> >>, MixArm >>)

\* canonical_param_key on the folded key k
CanonicalKeyOf(group, k) ==
    IF group = <<"a","m","p">>
    THEN MatchArm(k,
            << << {<<"g","a","i","n">>, <<"d","r","i","v","e">>, <<"i","n","p","u","t">>, <<"p","r","e","g","a","i","n">>, <<"p","r","e","a","m","p">>}, <<"g","a","i","n">> >>,
               << {<<"b","a","s","s">>, <<"l","o","w">>, <<"l","o","w","s">>}, <<"b","a","s","s">> >>,
               << {<<"m","i","d">>, <<"m","i","d","d","l","e">>, <<"m","i","d","s">>}, <<"m","i","d">> >>,
               << {<<"t","r","e","b","l","e">>, <<"t","r","e","b">>, <<"h","i","g","h">>, <<"h","i","g","h","s">>}, <<"t","r","e","b","l","e">> >>,
               << {<<"p","r","e","s","e","n","c","e">>, <<"p","r","e","s">>, <<"b","r","i","g","h","t">>}, <<"p","r","e","s","e","n","c","e">> >>,
               << {<<"m","a","s","t","e","r">>, <<"v","o","l","u","m","e">>, <<"l","e","v","e","l">>, <<"o","u","t","p","u","t">>}, <<"m","a","s","t","e","r">> >> >>)
    ELSE IF str_starts_with(group, EffectPrefix) /\ EffectTypeOf(group) \in KnownEffectTypes
    THEN EffectParamKey(EffectTypeOf(group), k)
    ELSE IF group = <<"r","e","v","e","r","b">>
    THEN MatchArm(k, << MixArm,
                        << {<<"r","o","o","m","s","i","z","e">>, <<"r","o","o","m","_","s","i","z","e">>, <<"s","i","z","e">>}, <<"r","o","o","m","_","s","i","z","e">> >>,
                        << {<<"p","r","e","d","e","l","a","y">>, <<"p","r","e","_","d","e","l","a","y">>, <<"p","r","e">>}, <<"p","r","e","d","e","l","a","y">> >>,
                        << {<<"d","e","c","a","y">>, <<"t","i","m","e">>}, <<"d","e","c","a","y">> >>,
                        << {<<"h","i","g","h","c","u","t">>, <<"h","i","g","h","_","c","u","t">>, <<"h","i","c","u","t">>}, <<"h","i","g","h","_","c","u","t">> >>,
                        << {<<"l","o","w","c","u","t">>, <<"l","o","w","_","c","u","t">>, <<"l","o","c","u","t">>}, <<"l","o","w","_","c","u","t">> >> >>)
    ELSE IF group = <<"d","e","l","a","y">>
    THEN MatchArm(k, << MixArm, TimeArm, FeedbackArm >>)
    ELSE MatchArm(k, << MixArm, TimeArm, FeedbackArm, ThresholdArm, AttackArm, ReleaseArm >>)

\* Option<String>: << >> stands for None
canonical_param_key(group, key) == CanonicalKeyOf(group, san_normalize_token(key))

\* faulty variant: the effect groups are not treated as strict
is_strict_group_lax(group) == group = <<"d","e","l","a","y">> \/ group = <<"r","e","v","e","r","b">>

is_strict_group(group) ==
    group = <<"d","e","l","a","y">> \/ group = <<"r","e","v","e","r","b">> \/ str_starts_with(group, EffectPrefix)

\* HashMap::insert on a set of entries
MapInsert(m, k, v) == { e \in m : e.k # k } \cup { KV(k, v) }

\* the state of the loop of sanitize_unit_map: the output map and the warnings
UnitState(out, warnings) == [out |-> out, warnings |-> warnings]

StWarned(st, w) == [st EXCEPT !.warnings = Append(@, w)]

\* the key an entry is stored under: the canonical key, else its own key
CanonicalOrOwn(group, k) ==
    IF canonical_param_key(group, k) = << >> THEN k ELSE canonical_param_key(group, k)

\* the clamp warning of an entry whose value v is finite
ClampWarned(st, group, k, v) ==
    IF f_clamp(v, 0, Unit) # v
    THEN StWarned(st, Msg("{}: clamped '{}' from {:.3} to {:.3}",
            <<group, CanonicalOrOwn(group, k), FloatToStr(v), FloatToStr(f_clamp(v, 0, Unit))>>))
    ELSE st

Inserted(st, group, k, v) ==
    [ClampWarned(st, group, k, v)
     EXCEPT !.out = MapInsert(@, CanonicalOrOwn(group, k), f_clamp(v, 0, Unit))]

\* the length test after the loop (never true: inserts stop at max_keys)
CapWarned(st, group, max_keys) ==
    IF Cardinality(st.out) > max_keys
    THEN StWarned(st, Msg("{}: too many keys; capped to {}", <<group, IntToStr(max_keys)>>))
    ELSE st

\* sanitize_unit_map with the input map enumerated in the order ord
RECURSIVE SanitizeUnitMapIn(_, _, _, _)
SanitizeUnitMapIn(ord, group, st, max_keys) ==
    IF ord = << >> THEN CapWarned(st, group, max_keys)
    ELSE IF ~is_finite(Head(ord).v)
    THEN SanitizeUnitMapIn(Tail(ord), group,
            StWarned(st, Msg("{}: dropped non-finite value for '{}'", <<group, Head(ord).k>>)),
            max_keys)
    ELSE IF canonical_param_key(group, Head(ord).k) = << >> /\ is_strict_group(group)
    THEN SanitizeUnitMapIn(Tail(ord), group,
            StWarned(st, Msg("{}: dropped unsupported key '{}' (strict vocabulary)",
                           <<group, Head(ord).k>>)),
            max_keys)
    ELSE IF Cardinality(st.out) < max_keys
    THEN SanitizeUnitMapIn(Tail(ord), group,
            Inserted(st, group, Head(ord).k, Head(ord).v), max_keys)
    ELSE SanitizeUnitMapIn(Tail(ord), group,
            ClampWarned(st, group, Head(ord).k, Head(ord).v), max_keys)

\* every result of sanitize_unit_map: one per enumeration order of the map
sanitize_unit_map(map_, group, warnings, max_keys) ==
    { SanitizeUnitMapIn(ord, group, UnitState({}, warnings), max_keys) :
        ord \in EnumOrders(map_) }

\* a.1.abs() descending on [k, v] pairs, stable
RECURSIVE InsertByAbsValue(_, _)
InsertByAbsValue(sorted, p) ==
    IF sorted = << >> THEN <<p>>
    ELSE IF f_lt(f_abs(sorted[Len(sorted)].v), f_abs(p.v))
        THEN Append(InsertByAbsValue(SubSeq(sorted, 1, Len(sorted) - 1), p), sorted[Len(sorted)])
    ELSE Append(sorted, p)

RECURSIVE StableSortByAbsValue(_)
StableSortByAbsValue(pairs) ==
    IF pairs = << >> THEN << >>
    ELSE InsertByAbsValue(StableSortByAbsValue(SubSeq(pairs, 1, Len(pairs) - 1)),
                          pairs[Len(pairs)])

RECURSIVE EqDropWarnings(_)
EqDropWarnings(ord) ==
    IF ord = << >> THEN << >>
    ELSE (IF ~is_finite(Head(ord).v)
          THEN << Msg("eq: dropped non-finite value for '{}'", <<Head(ord).k>>) >> ELSE << >>)
         \o EqDropWarnings(Tail(ord))

RECURSIVE EqClampWarnings(_)
EqClampWarnings(ord) ==
    IF ord = << >> THEN << >>
    ELSE (IF f_clamp(Head(ord).v, -EqClampDb, EqClampDb) # Head(ord).v
          THEN << Msg("eq: clamped '{}' from {:+.1} dB to {:+.1} dB",
                      <<Head(ord).k, FloatToStr(Head(ord).v),
                        FloatToStr(f_clamp(Head(ord).v, -EqClampDb, EqClampDb))>>) >>
          ELSE << >>)
         \o EqClampWarnings(Tail(ord))

IsFiniteEntry(e) == is_finite(e.v)

\* faulty variant: the value is kept as it came
ClampEqNone(e) == e

ClampEq(e) == KV(e.k, f_clamp(e.v, -EqClampDb, EqClampDb))

\* faulty variant: every point is kept
CapEqNone(clamped, warnings, max_points) ==
    [out |-> SeqRange(clamped), warnings |-> warnings]

\* the cap of sanitize_eq_map on the clamped pairs, in enumeration order
CapEq(clamped, warnings, max_points) ==
    IF Len(clamped) <= max_points
    THEN [out |-> SeqRange(clamped), warnings |-> warnings]
    ELSE [out |-> SeqRange(Truncate(StableSortByAbsValue(clamped), max_points)),
          warnings |-> Append(warnings, Msg("eq: too many points; keeping top {} by |dB|",
                                            <<IntToStr(max_points)>>))]

\* sanitize_eq_map with the map enumerated in the order ord: [out, warnings]
SanitizeEqMapIn(ord, warnings, max_points) ==
    Let(SelectSeq(ord, IsFiniteEntry), LAMBDA kept :
        CapEq(<< >> \o [i \in 1..Len(kept) |-> ClampEq(kept[i])],
              warnings \o EqDropWarnings(ord) \o EqClampWarnings(kept), max_points))

sanitize_eq_map(map_, warnings, max_points) ==
    { SanitizeEqMapIn(ord, warnings, max_points) : ord \in EnumOrders(map_) }

\* one iteration of the loop of sanitize_effects on the outcome o so far;
\* ct is canonical_effect_type(effect.effect_type)
SanitizeEffect(o, effect, ct, max_params_per_effect) ==
    { [effects |-> Append(o.effects, Effect(ct, r.out)), warnings |-> r.warnings] :
        r \in sanitize_unit_map(effect.parameters, EffectPrefix \o ct,
                IF ct # effect.effect_type
                THEN Append(o.warnings, Msg("effects: normalized effect_type '{}' -> '{}'",
                                            <<effect.effect_type, ct>>))
                ELSE o.warnings,
                max_params_per_effect) }

\* the loop of sanitize_effects over the (already truncated) effects:
\* the set of [effects, warnings] it can produce
RECURSIVE SanitizeEffectsFrom(_, _, _, _)
SanitizeEffectsFrom(effects, i, outs, max_params_per_effect) ==
    IF i > Len(effects) THEN outs
    ELSE SanitizeEffectsFrom(effects, i + 1,
            UNION { SanitizeEffect(o, effects[i], canonical_effect_type(effects[i].effect_type),
                                   max_params_per_effect) : o \in outs },
            max_params_per_effect)

HasParameters(e) == e.parameters # {}

\* effects.retain(non-empty) and its warning; kept is the retained list
RetainNonEmpty(o, kept) ==
    [effects |-> kept,
     warnings |-> IF Len(kept) # Len(o.effects)
                  THEN Append(o.warnings,
                         Msg("effects: dropped {} empty effect(s) after sanitization",
                             <<IntToStr(Len(o.effects) - Len(kept))>>))
                  ELSE o.warnings]

sanitize_effects(effects, warnings, max_effects, max_params_per_effect) ==
    { RetainNonEmpty(o, SelectSeq(o.effects, HasParameters)) :
        o \in SanitizeEffectsFrom(Truncate(effects, max_effects), 1,
                { [effects |-> << >>,
                   warnings |-> IF Len(effects) > max_effects
                                THEN Append(warnings,
                                       Msg("effects: {} entries provided; keeping first {}",
                                           <<IntToStr(Len(effects)), IntToStr(max_effects)>>))
                                ELSE warnings] },
                max_params_per_effect) }

SanitizedTone(parameters, warnings) == [parameters |-> parameters, warnings |-> warnings]

\* every SanitizedTone sanitize can return for these parameters
sanitize(parameters) ==
    UNION { UNION { UNION { UNION {
        { SanitizedTone(Tone(amp.out, eq.out, eff.effects, reverb.out, delay.out), eff.warnings) :
            eff \in sanitize_effects(parameters.effects, eq.warnings, MaxEffects,
                                     MaxParamsPerEffect) }
        : eq \in sanitize_eq_map(parameters.eq, delay.warnings, MaxEqPoints) }
        : delay \in sanitize_unit_map(parameters.delay, <<"d","e","l","a","y">>, reverb.warnings, MaxUnitKeys) }
        : reverb \in sanitize_unit_map(parameters.reverb, <<"r","e","v","e","r","b">>, amp.warnings, MaxUnitKeys) }
        : amp \in sanitize_unit_map(parameters.amp, <<"a","m","p">>, << >>, MaxUnitKeys) }

\* ------------------------------------------------------------ state machine
VARIABLES
    config,     \* ChainMapperConfig of the next / last map call
    tone,       \* tone_params handed to map (the raw tone in the sanitizer runs)
    snapshot,   \* the ReaperSnapshot handed to map
    pc,         \* position of the caller
    mapping,    \* the ChainMappingResult of the last map call
    call,       \* number of the map call (1, or 2 after a resnapshot)
    host,       \* the host's plugin chain (applier only)
    applied,    \* what the applier has sent to the host, in order
    snap_at,    \* per map call, Len(applied) when its snapshot was collected
    san,        \* sanitize(tone)
    resan,      \* sanitize(san.parameters)
    picked,     \* the last pick_best_plugin call: its keywords and its result
    prereq,     \* the last ensure_prerequisites call: its actions before and after
    manager,    \* the UndoManager: undo_stack, redo_stack, current_action
    caller      \* the UndoManager's caller: the last call, its result, the popped action

vars == <<config, tone, snapshot, pc, mapping, call, host, applied, snap_at, san, resan,
          picked, prereq, manager, caller>>

\* the state of the components a run does not exercise
aux == <<picked, prereq, manager, caller>>
NoPick == [keywords |-> << >>, plugin |-> 0]
NoPrereq == [before |-> EmptyBuf, after |-> EmptyBuf]
\* Option<UndoAction>: << >> for None, << a >> for Some(a)
NewManager == [undo_stack |-> << >>, redo_stack |-> << >>, current_action |-> << >>]
NoCalls == [op |-> "new", ret |-> "unit", held |-> << >>]
AuxIdle ==
    /\ picked = NoPick
    /\ prereq = NoPrereq
    /\ manager = NewManager
    /\ caller = NoCalls

NoMapping == MappingResult(EmptyBuf)
EmptyTone == Tone({}, {}, << >>, {}, {})
NoSanitized == SanitizedTone(EmptyTone, << >>)

Init ==
    /\ AuxIdle
    /\ config \in Configs
    /\ tone \in Tones
    /\ snapshot \in Snapshots
    /\ pc = "Ready"
    /\ mapping = NoMapping
    /\ call = 1
    /\ host = << >>
    /\ applied = << >>
    /\ snap_at = <<0>>
    /\ san = NoSanitized
    /\ resan = NoSanitized

\* ChainMapper::new(config).map(&tone, &snapshot)
Map ==
    /\ pc = "Ready"
    /\ mapping' \in map(config, tone, snapshot)
    /\ pc' = "Mapped"
    /\ UNCHANGED <<config, tone, snapshot, call, host, applied, snap_at, san, resan>>
    /\ UNCHANGED aux

NextMap == Map

Spec == Init /\ [][NextMap]_vars

\* ------------------------------------------------------- sanitizer machine
\* raw tones as the engineer may produce them: synonym keys, out-of-range and
\* non-finite values, colliding keys, over-long maps and lists
NumKey(i) == <<"k">> \o NatToStr(i)
ManyAmpKeys == { KV(NumKey(i), Fin(10 * i)) : i \in 1..(MaxUnitKeys + 1) }

\* MaxEqPoints + 1 points, the two weakest tying in |dB|
ManyEqPoints ==
    { KV(NatToStr(100 * i) \o <<"H","z">>, Fin(IF i % 2 = 0 THEN i ELSE -i)) : i \in 2..MaxEqPoints }
    \cup { KV(<<"5","0","H","z">>, Fin(1)), KV(<<"6","0","H","z">>, Fin(-1)) }

RawAmps ==
    { {},
      { KV(<<"D","r","i","v","e">>, Fin(2000)), KV(<<"T","r","e","B">>, Fin(-1000)) },
      { KV(<<"g","a","i","n">>, Fin(800)), KV(<<"D","r","i","v","e">>, Fin(300)), KV(<<"W","e","i","r","d"," ","K","e","y">>, Fin(500)) },
      { KV(<<"m","i","d">>, NaN), KV(<<"p","r","e","s","e","n","c","e">>, PosInf), KV(<<"b","a","s","s">>, Fin(250)) },
      ManyAmpKeys }

RawReverbs ==
    { {}, { KV(<<"W","e","t">>, Fin(300)), KV(<<"R","o","o","m"," ","S","i","z","e">>, Fin(1500)), KV(<<"b","o","g","u","s">>, Fin(500)),
            KV(<<"j","u","n","k">>, NaN) } }

RawDelays == { {}, { KV(<<"m","s">>, Fin(400)), KV(<<"f","b">>, NegInf) } }

RawEqs ==
    { {}, { KV(<<"8","0","0","H","z">>, Fin(-99)), KV(<<"2","k","H","z">>, Fin(99)), KV(<<"a","b","c">>, NaN) }, ManyEqPoints }

RawEffectLists ==
    { << >>,
      << Effect(<<"G","a","t","e">>, { KV(<<"T","h","r","e","s","h">>, Fin(5000)), KV(<<"d","e","c","a","y">>, Fin(200)) }) >>,
      << Effect(<<"T","u","b","e"," ","S","c","r","e","a","m","e","r">>, { KV(<<"g","a","i","n">>, Fin(700)), KV(<<"d","r","i","v","e">>, Fin(600)),
                                    KV(<<"b","o","g","u","s">>, Fin(100)) }),
         Effect(<<"w","a","h">>, { KV(<<"s","w","e","e","p">>, Fin(500)) }) >>,
      << Effect(<<"c","o","m","p">>, { KV(<<"r","a","t","i","o">>, Fin(400)) }),
         Effect(<<"F","u","z","z">>, { KV(<<"b","o","g","u","s">>, Fin(100)) }),
         Effect(<<"c","h","o","r","u","s">>, { KV(<<"b","l","e","n","d">>, Fin(-50)) }),
         Effect(<<"p","h","a","s","e","r">>, { KV(<<"f","b">>, Fin(300)) }),
         Effect(<<"n","o","i","s","e","_","g","a","t","e">>, { KV(<<"t","h","r","e","s","h","o","l","d">>, NaN) }),
         Effect(<<"o","d">>, { KV(<<"l","e","v","e","l">>, Fin(900)) }) >> }

RawTones ==
    { Tone(amp, eq, effects, reverb, delay) :
        amp \in RawAmps, eq \in RawEqs, effects \in RawEffectLists,
        reverb \in RawReverbs, delay \in RawDelays }

InitSan ==
    /\ AuxIdle
    /\ tone \in RawTones
    /\ pc = "Raw"
    /\ san = NoSanitized
    /\ resan = NoSanitized
    /\ config = DefaultConfig
    /\ snapshot = Snapshot(<< >>)
    /\ mapping = NoMapping
    /\ call = 0
    /\ host = << >>
    /\ applied = << >>
    /\ snap_at = << >>

\* sanitize(raw)
Sanitize ==
    /\ pc = "Raw"
    /\ san' \in sanitize(tone)
    /\ pc' = "Sanitized"
    /\ UNCHANGED <<config, tone, snapshot, mapping, call, host, applied, snap_at, resan>>
    /\ UNCHANGED aux

\* sanitize(sanitize(raw).parameters)
Resanitize ==
    /\ pc = "Sanitized"
    /\ resan' \in sanitize(san.parameters)
    /\ pc' = "Resanitized"
    /\ UNCHANGED <<config, tone, snapshot, mapping, call, host, applied, snap_at, san>>
    /\ UNCHANGED aux

NextSan == Sanitize \/ Resanitize

SpecSan == InitSan /\ [][NextSan]_vars

\* --------------------------------------------------------- applier protocol
\* The host adapter (add_plugin, enable_plugin, set_parameter_by_index) lives
\* outside the repository's Rust sources; its effect on the chain follows the
\* adapter surface of the specification.

\* the parameters a plugin of that name exposes once loaded
HostParametersOf(plugin_name) ==
    Let({ i \in 1..Len(PluginCatalog) : PluginCatalog[i].name = plugin_name }, LAMBDA hits :
        IF hits = {} THEN << >> ELSE PluginCatalog[MinOf(hits)].parameters)

\* add_plugin(track, name) -> fx_index: the plugin takes the next slot
HostAdd(chain, plugin_name, enabled) ==
    Append(chain, Plugin(Len(chain), plugin_name, enabled, HostParametersOf(plugin_name)))

\* enable_plugin(track, fx, true)
HostEnable(chain, plugin_index) ==
    [i \in 1..Len(chain) |->
        IF chain[i].index = plugin_index THEN [chain[i] EXCEPT !.enabled = TRUE] ELSE chain[i]]

\* set_parameter_by_index(track, fx, param_index, value)
HostSet(chain, plugin_index, param_index, value) ==
    [i \in 1..Len(chain) |->
        IF chain[i].index = plugin_index
        THEN [chain[i] EXCEPT !.parameters =
                [j \in 1..Len(chain[i].parameters) |->
                    IF chain[i].parameters[j].index = param_index
                    THEN [chain[i].parameters[j] EXCEPT !.current_value = value]
                    ELSE chain[i].parameters[j]]]
        ELSE chain[i]]

\* apply_actions: the chains the host can hold after the actions, in order
\* (a freshly added plugin comes up enabled or not, as the host decides)
RECURSIVE apply_actions(_, _)
apply_actions(chain, actions) ==
    IF actions = << >> THEN { chain }
    ELSE IF Head(actions).type = "LoadPlugin"
    THEN UNION { apply_actions(HostAdd(chain, Head(actions).plugin_name, en), Tail(actions)) :
                    en \in BOOLEAN }
    ELSE IF Head(actions).type = "EnablePlugin"
    THEN apply_actions(HostEnable(chain, Head(actions).plugin_index), Tail(actions))
    ELSE apply_actions(HostSet(chain, Head(actions).plugin_index, Head(actions).param_index,
                               Head(actions).value), Tail(actions))

\* collect_snapshot(client, 0)
collect_snapshot(chain) == Snapshot(chain)

\* faulty variant: the first apply sends every action
AnyAction(a) == TRUE

\* the filter of the first apply: LoadPlugin | EnablePlugin
IsLoadOrEnable(a) == a.type = "LoadPlugin" \/ a.type = "EnablePlugin"

\* what the applier sent, tagged with the map call it came from
Sent(actions, n) == [i \in 1..Len(actions) |-> [action |-> actions[i], call |-> n]]

\* the tones handed to the mapper: sanitized parameters
SanitizedTones == UNION { { s.parameters : s \in sanitize(t) } : t \in Tones }

InitApply ==
    /\ AuxIdle
    /\ config = DefaultConfig
    /\ tone \in SanitizedTones
    /\ host \in Chains
    /\ snapshot = collect_snapshot(host)
    /\ pc = "Ready"
    /\ mapping = NoMapping
    /\ call = 1
    /\ applied = << >>
    /\ snap_at = <<0>>
    /\ san = NoSanitized
    /\ resan = NoSanitized

\* mapping.requires_resnapshot: apply the loads and enables of the first
\* result, collect the snapshot again and hand it to a mapper with
\* allow_load_plugins: false
ApplyLoadsAndResnapshot ==
    /\ pc = "Mapped" /\ call = 1 /\ mapping.requires_resnapshot
    /\ host' \in apply_actions(host, SelectSeq(mapping.actions, IsLoadOrEnable))
    /\ applied' = applied \o Sent(SelectSeq(mapping.actions, IsLoadOrEnable), call)
    /\ snapshot' = collect_snapshot(host')
    /\ snap_at' = Append(snap_at, Len(applied'))
    /\ config' = Config(FALSE, DefaultConfig.max_eq_points)
    /\ call' = call + 1
    /\ pc' = "Ready"
    /\ UNCHANGED <<tone, mapping, san, resan>>
    /\ UNCHANGED aux

\* apply_actions(&client, &mapping.actions) of the last mapping
ApplyAll ==
    /\ pc = "Mapped" /\ (call = 2 \/ ~mapping.requires_resnapshot)
    /\ host' \in apply_actions(host, mapping.actions)
    /\ applied' = applied \o Sent(mapping.actions, call)
    /\ pc' = "Applied"
    /\ UNCHANGED <<config, tone, snapshot, mapping, call, snap_at, san, resan>>
    /\ UNCHANGED aux

NextApply == Map \/ ApplyLoadsAndResnapshot \/ ApplyAll

SpecApply == InitApply /\ [][NextApply]_vars

\* ------------------------------------------------------------- role matcher
\* plugin names the role matcher is run on, in every order
MatchNames ==
    { <<"R","e","a","D","e","l","a","y"," ","(","C","o","c","k","o","s",")">>, <<"D","e","l","a","y">>, <<"T","a","p","e"," ","D","e","l","a","y">>, <<"E","c","h","o"," ","D","e","l","a","y">>, <<"R","e","a","G","a","t","e"," ","(","C","o","c","k","o","s",")">>,
      <<"T","u","n","e","r">> }

MaxMatchPlugins == 3

MatchChain(names) ==
    << >> \o [i \in 1..Len(names) |-> Plugin(i - 1, names[i], TRUE, << >>)]

MatchSnapshots ==
    { Snapshot(MatchChain(names)) :
        names \in { s \in SeqsUpTo(MatchNames, MaxMatchPlugins) :
                        \A i, j \in 1..Len(s) : s[i] = s[j] => i = j } }

RoleKeywordLists ==
    { role_keywords_amp, role_keywords_eq, role_keywords_gate, role_keywords_reverb,
      role_keywords_delay }

InitMatch ==
    /\ snapshot \in MatchSnapshots
    /\ picked = NoPick
    /\ prereq = NoPrereq
    /\ manager = NewManager
    /\ caller = NoCalls
    /\ pc = "Ready"
    /\ config = DefaultConfig
    /\ tone = EmptyTone
    /\ mapping = NoMapping
    /\ call = 0
    /\ host = << >>
    /\ applied = << >>
    /\ snap_at = << >>
    /\ san = NoSanitized
    /\ resan = NoSanitized

\* pick_best_plugin(&snapshot, &keywords) for one role
PickPlugin ==
    /\ pc = "Ready"
    /\ \E keywords \in RoleKeywordLists :
        picked' = [keywords |-> keywords, plugin |-> pick_best_plugin(snapshot, keywords)]
    /\ pc' = "Picked"
    /\ UNCHANGED <<config, tone, snapshot, mapping, call, host, applied, snap_at, san, resan,
                   prereq, manager, caller>>

NextMatch == PickPlugin

SpecMatch == InitMatch /\ [][NextMatch]_vars

\* ----------------------------------------------------------- gate inferencer
\* parameters the gate inferencer is run on: section gates with and without
\* module tokens, active and inactive, and parameters to be set
GateParamPool ==
    { [name |-> <<"E","Q"," ","B","y","p","a","s","s">>, current_value |-> Fin(Unit)],
      [name |-> <<"E","Q"," ","E","n","a","b","l","e">>, current_value |-> Fin(0)],
      [name |-> <<"C","o","m","p"," ","E","Q"," ","A","c","t","i","v","e">>, current_value |-> Fin(Unit)],
      [name |-> <<"B","y","p","a","s","s">>, current_value |-> Half],
      [name |-> <<"D","i","s","t","o","r","t","i","o","n">>, current_value |-> Fin(0)],
      [name |-> <<"A","c","t","i","v","e">>, current_value |-> NaN],
      [name |-> <<"E","Q"," ","G","a","i","n">>, current_value |-> Half],
      [name |-> <<"C","o","m","p"," ","E","Q"," ","R","a","t","i","o">>, current_value |-> Half],
      [name |-> <<"V","o","l","u","m","e">>, current_value |-> Half] }

MaxGateParams == 3
MaxGateTargets == 2

GatePlugin(params) ==
    Plugin(0, <<"C","h","a","n","n","e","l"," ","S","t","r","i","p">>, TRUE,
           << >> \o [i \in 1..Len(params) |->
                        Param(i - 1, params[i].name, params[i].current_value)])

GateSnapshots ==
    { Snapshot(<< GatePlugin(params) >>) :
        params \in { s \in SeqsUpTo(GateParamPool, MaxGateParams) :
                        s # << >> /\ \A i, j \in 1..Len(s) : s[i] = s[j] => i = j } }

\* the candidate SetParameters on the parameters at the positions in targets
Candidates(snap, targets) ==
    Buf(<< >> \o [i \in 1..Len(targets) |->
            SetParameter(snap.track_index, snap.plugins[1].index,
                snap.plugins[1].parameters[targets[i]].index,
                snap.plugins[1].parameters[targets[i]].name, Half,
                Msg("{} :: {} -> {}",
                    <<<<"a","m","p">>, <<"k","n","o","b">>, snap.plugins[1].parameters[targets[i]].name>>))],
        << >>, FALSE)

InitGate ==
    /\ snapshot \in GateSnapshots
    /\ prereq = NoPrereq
    /\ picked = NoPick
    /\ manager = NewManager
    /\ caller = NoCalls
    /\ pc = "Ready"
    /\ config = DefaultConfig
    /\ tone = EmptyTone
    /\ mapping = NoMapping
    /\ call = 0
    /\ host = << >>
    /\ applied = << >>
    /\ snap_at = << >>
    /\ san = NoSanitized
    /\ resan = NoSanitized

\* ensure_prerequisites(actions, &snapshot, &mut warnings) on one or two
\* candidate SetParameters
EnsurePrerequisites ==
    /\ pc = "Ready"
    /\ \E targets \in SeqsUpTo(1..Len(snapshot.plugins[1].parameters), MaxGateTargets) :
        /\ targets # << >>
        /\ \E after \in ensure_prerequisites(Candidates(snapshot, targets), snapshot) :
            prereq' = [before |-> Candidates(snapshot, targets), after |-> after]
    /\ pc' = "Prepared"
    /\ UNCHANGED <<config, tone, snapshot, mapping, call, host, applied, snap_at, san, resan,
                   picked, manager, caller>>

NextGate == EnsurePrerequisites

SpecGate == InitGate /\ [][NextGate]_vars

\* -------------------------------------------------------------- UndoManager
MAX_UNDO_HISTORY == 50

\* changes recorded per action at most
MaxChanges == 1

\* UndoAction without its id and timestamp: the description and the number
\* of changes of each kind
UndoAction(description) ==
    [description |-> description, parameter_changes |-> 0, fx_toggles |-> 0,
     plugin_changes |-> 0]

is_empty(action) ==
    action.parameter_changes = 0 /\ action.fx_toggles = 0 /\ action.plugin_changes = 0

change_count(action) == action.parameter_changes + action.fx_toggles + action.plugin_changes

add_param_change(action) == [action EXCEPT !.parameter_changes = @ + 1]
add_fx_toggle(action) == [action EXCEPT !.fx_toggles = @ + 1]
add_plugin_change(action) == [action EXCEPT !.plugin_changes = @ + 1]

Descriptions == { "Change gain" }

\* faulty variant: the stack is left as long as it is
KeepAll(stack) == stack

\* while stack.len() > MAX_UNDO_HISTORY { stack.pop_front(); }
RECURSIVE TrimFront(_)
TrimFront(stack) ==
    IF Len(stack) > MAX_UNDO_HISTORY THEN TrimFront(Tail(stack)) ELSE stack

\* the record_* calls kept within MaxChanges
MayRecord ==
    IF manager.current_action = << >> THEN TRUE
    ELSE change_count(manager.current_action[1]) < MaxChanges

\* histories longer than MaxVaried hold parameter changes only
MaxVaried == 2
ParamOnly(actions) ==
    \A i \in 1..Len(actions) : actions[i].fx_toggles = 0 /\ actions[i].plugin_changes = 0

WithinBounds ==
    \/ Len(manager.undo_stack) + Len(manager.redo_stack) <= MaxVaried
    \/ ParamOnly(manager.undo_stack \o manager.redo_stack \o manager.current_action
                 \o caller.held)

\* the caller after a call that returned ret (unit, None or Some)
Called(op, ret) == [caller EXCEPT !.op = op, !.ret = ret]

Recorded(add(_)) ==
    IF manager.current_action = << >> THEN manager
    ELSE [manager EXCEPT !.current_action = << add(manager.current_action[1]) >>]

InitUndo ==
    /\ manager = NewManager
    /\ caller = NoCalls
    /\ picked = NoPick
    /\ prereq = NoPrereq
    /\ pc = "Idle"
    /\ config = DefaultConfig
    /\ tone = EmptyTone
    /\ snapshot = Snapshot(<< >>)
    /\ mapping = NoMapping
    /\ call = 0
    /\ host = << >>
    /\ applied = << >>
    /\ snap_at = << >>
    /\ san = NoSanitized
    /\ resan = NoSanitized

mapper == <<config, tone, snapshot, pc, mapping, call, host, applied, snap_at, san, resan,
            picked, prereq>>

begin_action ==
    /\ \E description \in Descriptions :
        manager' = [manager EXCEPT !.current_action = << UndoAction(description) >>]
    /\ caller' = Called("begin_action", "unit")
    /\ UNCHANGED mapper
    /\ WithinBounds'

record_param_change ==
    /\ MayRecord
    /\ manager' = Recorded(add_param_change)
    /\ caller' = Called("record_param_change", "unit")
    /\ UNCHANGED mapper
    /\ WithinBounds'

record_fx_toggle ==
    /\ MayRecord
    /\ manager' = Recorded(add_fx_toggle)
    /\ caller' = Called("record_fx_toggle", "unit")
    /\ UNCHANGED mapper
    /\ WithinBounds'

record_plugin_change ==
    /\ MayRecord
    /\ manager' = Recorded(add_plugin_change)
    /\ caller' = Called("record_plugin_change", "unit")
    /\ UNCHANGED mapper
    /\ WithinBounds'

commit_action ==
    /\ IF manager.current_action # << >> /\ ~is_empty(manager.current_action[1])
       THEN /\ manager' = [undo_stack |->
                              TrimFront(Append(manager.undo_stack, manager.current_action[1])),
                           redo_stack |-> << >>,
                           current_action |-> << >>]
            /\ caller' = Called("commit_action", "Some")
       ELSE /\ manager' = [manager EXCEPT !.current_action = << >>]
            /\ caller' = Called("commit_action", "None")
    /\ UNCHANGED mapper
    /\ WithinBounds'

cancel_action ==
    /\ manager' = [manager EXCEPT !.current_action = << >>]
    /\ caller' = Called("cancel_action", "unit")
    /\ UNCHANGED mapper
    /\ WithinBounds'

\* VecDeque::pop_back: [rest, popped] with popped an Option
PopBack(stack) ==
    IF stack = << >> THEN [rest |-> stack, popped |-> << >>]
    ELSE [rest |-> SubSeq(stack, 1, Len(stack) - 1), popped |-> << stack[Len(stack)] >>]

Returned(op, popped) ==
    IF popped = << >> THEN Called(op, "None")
    ELSE [op |-> op, ret |-> "Some", held |-> popped]

pop_undo ==
    /\ manager' = [manager EXCEPT !.undo_stack = PopBack(manager.undo_stack).rest]
    /\ caller' = Returned("pop_undo", PopBack(manager.undo_stack).popped)
    /\ UNCHANGED mapper
    /\ WithinBounds'

\* push_redo(action.clone()) with the action the caller popped last
push_redo ==
    /\ caller.held # << >>
    /\ manager' = [manager EXCEPT !.redo_stack = TrimFront(Append(@, caller.held[1]))]
    /\ caller' = Called("push_redo", "unit")
    /\ UNCHANGED mapper
    /\ WithinBounds'

pop_redo ==
    /\ manager' = [manager EXCEPT !.redo_stack = PopBack(manager.redo_stack).rest]
    /\ caller' = Returned("pop_redo", PopBack(manager.redo_stack).popped)
    /\ UNCHANGED mapper
    /\ WithinBounds'

push_undo ==
    /\ caller.held # << >>
    /\ manager' = [manager EXCEPT !.undo_stack = TrimFront(Append(@, caller.held[1]))]
    /\ caller' = Called("push_undo", "unit")
    /\ UNCHANGED mapper
    /\ WithinBounds'

NextUndo ==
    \/ begin_action \/ record_param_change \/ record_fx_toggle \/ record_plugin_change
    \/ commit_action \/ cancel_action
    \/ pop_undo \/ push_redo \/ pop_redo \/ push_undo

SpecUndo == InitUndo /\ [][NextUndo]_vars

\* ================================================================== claims
Mapped == pc = "Mapped"
ActionAt(i) == mapping.actions[i]
Positions == 1..Len(mapping.actions)
IsSetAt(i) == ActionAt(i).type = "SetParameter"
IsEnableAt(i) == ActionAt(i).type = "EnablePlugin"
IsLoadAt(i) == ActionAt(i).type = "LoadPlugin"
HasWarning(fmt) == \E w \in 1..Len(mapping.warnings) : mapping.warnings[w].fmt = fmt

\* the value the contract prescribes for a candidate value
Expected(v) ==
    IF ~is_finite(v) THEN Fin(Unit \div 2)
    ELSE IF v.n < 0 THEN Fin(0)
    ELSE IF v.n > Unit THEN Fin(Unit)
    ELSE v

InUnitRange(v) == is_finite(v) /\ 0 <= v.n /\ v.n <= Unit

\* the SetParameter a of the result stems from a candidate of the prepared
\* buffer p: same target, same reason, the prescribed value
StemsFrom(p, a) ==
    \E j \in 1..Len(p.actions) :
        /\ p.actions[j].type = "SetParameter"
        /\ SetKey(p.actions[j]) = SetKey(a)
        /\ p.actions[j].reason = a.reason
        /\ a.value = Expected(p.actions[j].value)

\* C1: every SetParameter of map's result has a value in [0, 1]; it is the
\* candidate value with a non-finite value replaced by 0.5, a value below 0
\* by 0.0 and a value above 1 by 1.0
C1_SetValuesInUnitRange ==
    Mapped =>
        /\ \A i \in Positions : IsSetAt(i) => InUnitRange(ActionAt(i).value)
        /\ \E p \in Prepared(config, tone, snapshot) :
            /\ MappingResult(plan_actions(p)) = mapping
            /\ \A i \in Positions : IsSetAt(i) => StemsFrom(p, ActionAt(i))

\* a result in which a non-finite candidate became 0.5 and an out-of-range
\* candidate was clamped
C1_Witness ==
    /\ Mapped
    /\ HasWarning("Non-finite parameter value encountered; clamping to 0.5")
    /\ HasWarning("Value {} > 1.0; clamped to 1.0") \/ HasWarning("Value {} < 0.0; clamped to 0.0")
    /\ \E i \in Positions : IsSetAt(i) /\ ActionAt(i).value = Fin(Unit \div 2)
    /\ \E i \in Positions : IsSetAt(i) /\ ActionAt(i).value \in {Fin(0), Fin(Unit)}

\* the plugin with this index is in the snapshot and disabled there
DisabledInSnapshot(idx) ==
    \E k \in 1..Len(snapshot.plugins) :
        snapshot.plugins[k].index = idx /\ ~snapshot.plugins[k].enabled

\* C2: every SetParameter on a plugin that is disabled in the snapshot has an
\* EnablePlugin of the same plugin_index at a strictly earlier position
C2_EnableBeforeSet ==
    Mapped =>
        \A i \in Positions :
            IsSetAt(i) /\ DisabledInSnapshot(ActionAt(i).plugin_index) =>
                \E j \in 1..(i - 1) :
                    IsEnableAt(j) /\ ActionAt(j).plugin_index = ActionAt(i).plugin_index

C2_Witness ==
    /\ Mapped
    /\ \E i \in Positions : IsSetAt(i) /\ DisabledInSnapshot(ActionAt(i).plugin_index)

\* the section gate the gate-selection rule matches to the action at i and
\* that is inactive in the snapshot: << >> when there is none
InactiveGateOf(i) ==
    Let(PluginGatesAt(snapshot, ActionAt(i).plugin_index), LAMBDA gates :
        Let(IF gates = << >> THEN 0 ELSE ChooseGate(gates, ActionAt(i).param_name), LAMBDA g :
            IF g # 0 /\ gate_is_inactive(gates[g]) THEN << gates[g] >> ELSE << >>))

OpensGateBefore(i, gate) ==
    \E j \in 1..(i - 1) :
        /\ IsSetAt(j)
        /\ ActionAt(j).plugin_index = ActionAt(i).plugin_index
        /\ ActionAt(j).param_index = gate.param_index
        /\ ActionAt(j).value = (IF gate.kind = "Bypass" THEN Fin(0) ELSE Fin(Unit))

\* C3: every SetParameter on a non-gate parameter whose matched section gate
\* is inactive in the snapshot has a strictly earlier SetParameter on that
\* gate carrying the gate's enable value (0.0 for bypass, 1.0 for enable)
C3_GateOpenedBeforeSet ==
    Mapped =>
        \A i \in Positions :
            (IsSetAt(i) /\ gate_kind(ActionAt(i).param_name) = "None"
                /\ InactiveGateOf(i) # << >>)
            => OpensGateBefore(i, InactiveGateOf(i)[1])

C3_Witness ==
    /\ Mapped
    /\ \E i \in Positions :
        /\ IsSetAt(i) /\ gate_kind(ActionAt(i).param_name) = "None"
        /\ InactiveGateOf(i) # << >>

TypeRankOf(t) == IF t = "LoadPlugin" THEN 0 ELSE IF t = "EnablePlugin" THEN 1 ELSE 2

\* C4: no action of a lower type rank (Load 0, Enable 1, Set 2) appears after
\* one of a higher rank
C4_LoadEnableSetOrder ==
    Mapped =>
        \A i \in Positions : \A j \in (i + 1)..Len(mapping.actions) :
            TypeRankOf(ActionAt(i).type) <= TypeRankOf(ActionAt(j).type)

\* a result that holds all three kinds of action
C4_Witness ==
    /\ Mapped
    /\ \E i \in Positions : IsLoadAt(i)
    /\ \E i \in Positions : IsEnableAt(i)
    /\ \E i \in Positions : IsSetAt(i)

\* C5: map is deterministic: the result for (config, tone, snapshot) is the
\* only result map can return for them
C5_MapDeterministic ==
    Mapped => \A r \in map(config, tone, snapshot) : r = mapping

\* C6: every SetParameter names a plugin of the snapshot and a parameter of
\* that plugin, never a plugin that a LoadPlugin of the result only loads
C6_SetTargetsExist ==
    Mapped =>
        \A i \in Positions :
            IsSetAt(i) =>
                /\ ActionAt(i).plugin_index # NoIndex
                /\ \E k \in 1..Len(snapshot.plugins) :
                    /\ snapshot.plugins[k].index = ActionAt(i).plugin_index
                    /\ \E q \in 1..Len(snapshot.plugins[k].parameters) :
                        snapshot.plugins[k].parameters[q].index = ActionAt(i).param_index

\* a result with a LoadPlugin, an auto-inserted gate opener and a parameter
\* whose index is not its position
C6_Witness ==
    /\ Mapped
    /\ \E i \in Positions : IsLoadAt(i)
    /\ \E i \in Positions : IsSetAt(i) /\ ActionAt(i).reason.fmt = "Auto-enable section for '{}'"
    /\ \E i \in Positions : IsSetAt(i) /\ ActionAt(i).param_index > 9

\* C7: requires_resnapshot is true exactly when the returned actions hold a
\* LoadPlugin
C7_ResnapshotIffLoad ==
    Mapped => (mapping.requires_resnapshot <=> \E i \in Positions : IsLoadAt(i))

C7_Witness ==
    /\ Mapped
    /\ mapping.requires_resnapshot
    /\ \E i, j \in Positions : IsLoadAt(i) /\ IsSetAt(j)

\* a non-empty section whose role no plugin of the snapshot matches
NoPluginFor(keywords) == pick_best_plugin(snapshot, keywords) = 0

Warned(fmt, args) ==
    \E w \in 1..Len(mapping.warnings) : mapping.warnings[w] = [fmt |-> fmt, args |-> args]

\* C8: with allow_load_plugins false the result has no LoadPlugin,
\* requires_resnapshot is false, and every non-empty effect, reverb, delay or
\* EQ section without a matching plugin gets its 'No suitable ... plugin
\* found' warning
C8_NoLoadWhenDisallowed ==
    (Mapped /\ ~config.allow_load_plugins) =>
        /\ \A i \in Positions : ~IsLoadAt(i)
        /\ ~mapping.requires_resnapshot
        /\ (tone.reverb # {} /\ NoPluginFor(role_keywords_reverb))
            => Warned("No suitable reverb plugin found; skipped", << >>)
        /\ (tone.delay # {} /\ NoPluginFor(role_keywords_delay))
            => Warned("No suitable delay plugin found; skipped", << >>)
        /\ (tone.eq # {} /\ NoPluginFor(role_keywords_eq))
            => Warned("No suitable EQ plugin found; skipped", << >>)
        /\ \A e \in 1..Len(tone.effects) :
            NoPluginFor(role_keywords_for_effect(normalize_token(tone.effects[e].effect_type)))
            => Warned("No suitable plugin found for effect '{}'; skipped",
                      <<tone.effects[e].effect_type>>)

\* loading disallowed, an effect with a default plugin and a reverb or delay
\* section, none with a plugin in the snapshot
C8_Witness ==
    /\ Mapped /\ ~config.allow_load_plugins
    /\ \E e \in 1..Len(tone.effects) :
        /\ NoPluginFor(role_keywords_for_effect(normalize_token(tone.effects[e].effect_type)))
        /\ default_plugin_for_effect(normalize_token(tone.effects[e].effect_type)) # NoDefault
    /\ \/ tone.reverb # {} /\ NoPluginFor(role_keywords_reverb)
       \/ tone.delay # {} /\ NoPluginFor(role_keywords_delay)
       \/ tone.eq # {} /\ NoPluginFor(role_keywords_eq)

SentType(i) == applied[i].action.type

\* C9: when the first result requires a resnapshot only its LoadPlugin and
\* EnablePlugin actions are applied, the snapshot is then the host's chain
\* and the second map runs with loading disabled; every applied SetParameter
\* stems from a map call whose snapshot was taken after every applied
\* LoadPlugin; there are at most two map calls, the second result requiring
\* no resnapshot
C9_ApplierProtocol ==
    /\ call \in {1, 2}
    /\ Len(snap_at) = call
    /\ call = 2 =>
        /\ ~config.allow_load_plugins
        /\ \A i \in 1..snap_at[2] :
            applied[i].call = 1 /\ SentType(i) \in {"LoadPlugin", "EnablePlugin"}
    /\ (call = 2 /\ pc = "Ready") =>
        /\ snapshot = Snapshot(host)
        /\ mapping.requires_resnapshot
        /\ Len(applied) = snap_at[2]
        /\ \A a \in 1..Len(mapping.actions) :
            mapping.actions[a].type # "SetParameter"
            => \E i \in 1..Len(applied) : applied[i].action = mapping.actions[a]
    /\ (call = 2 /\ pc = "Mapped") =>
        /\ ~mapping.requires_resnapshot
        /\ \A a \in 1..Len(mapping.actions) : mapping.actions[a].type # "LoadPlugin"
    /\ \A i, j \in 1..Len(applied) :
        (SentType(i) = "SetParameter" /\ SentType(j) = "LoadPlugin")
        => j <= snap_at[applied[i].call]
    /\ (pc = "Mapped" /\ call = 1 /\ ~mapping.requires_resnapshot) => applied = << >>

\* the protocol ran to its end over two map calls and applied a LoadPlugin
\* and a SetParameter
C9_Witness ==
    /\ pc = "Applied" /\ call = 2
    /\ \E i, j \in 1..Len(applied) :
        SentType(i) = "SetParameter" /\ SentType(j) = "LoadPlugin"

\* C10: sanitization is idempotent: sanitizing the sanitized parameters
\* returns the same parameters
C10_SanitizeIdempotent ==
    pc = "Resanitized" => resan.parameters = san.parameters

\* both passes ran on a raw tone with synonym keys, out-of-range and
\* non-finite values, an over-long amp map, EQ list and effect list
C10_Witness ==
    /\ pc = "Resanitized"
    /\ tone.amp = ManyAmpKeys
    /\ tone.eq = ManyEqPoints
    /\ Len(tone.effects) > MaxEffects
    /\ tone.reverb # {} /\ tone.delay # {}
    /\ san.parameters # tone
    /\ Cardinality(san.parameters.amp) = MaxUnitKeys
    /\ Cardinality(san.parameters.eq) = MaxEqPoints

\* ------------------------------------------------ claims on the sanitizer
Sanitized == pc \in {"Sanitized", "Resanitized"}

\* the warnings of sanitize(tone) hold this message
SanWarned(fmt, args) ==
    \E w \in 1..Len(san.warnings) : san.warnings[w] = Msg(fmt, args)

SanWarnedFmt(fmt) == \E w \in 1..Len(san.warnings) : san.warnings[w].fmt = fmt

InEqRange(v) == is_finite(v) /\ -EqClampDb <= v.n /\ v.n <= EqClampDb

FiniteEntries(m) == { e \in m : is_finite(e.v) }

\* the group name sanitize_effects passes for an effect
GroupOfEffect(effect) == EffectPrefix \o canonical_effect_type(effect.effect_type)

\* the effects of the raw tone that the cap on the effect list keeps
CappedEffects == Truncate(tone.effects, MaxEffects)

\* every non-finite entry of a raw unit map is reported, and no more keys
\* come out than finite entries went in
UnitDropsReported(raw, out, group) ==
    /\ \A e \in raw : ~is_finite(e.v) =>
            SanWarned("{}: dropped non-finite value for '{}'", <<group, e.k>>)
    /\ Cardinality(out) <= Cardinality(FiniteEntries(raw))

WithinCaps(p) ==
    /\ Cardinality(p.amp) <= MaxUnitKeys
    /\ Cardinality(p.reverb) <= MaxUnitKeys
    /\ Cardinality(p.delay) <= MaxUnitKeys
    /\ Cardinality(p.eq) <= MaxEqPoints
    /\ Len(p.effects) <= MaxEffects
    /\ \A i \in 1..Len(p.effects) :
        /\ Cardinality(p.effects[i].parameters) >= 1
        /\ Cardinality(p.effects[i].parameters) <= MaxParamsPerEffect

\* C12: after sanitize amp, reverb and delay hold at most 32 keys each, eq at
\* most 16 points, effects at most 5 entries, and every effect holds at least
\* 1 and at most 24 parameters
C12_SizeCaps ==
    Sanitized => WithinCaps(san.parameters)

\* a raw tone with 33 amp keys, 17 eq points, 6 effects of which some lose
\* every parameter, was sanitized down to the caps
C12_Witness ==
    /\ pc = "Sanitized"
    /\ Cardinality(tone.amp) > MaxUnitKeys
    /\ Cardinality(tone.eq) > MaxEqPoints
    /\ Len(tone.effects) > MaxEffects
    /\ Cardinality(san.parameters.amp) = MaxUnitKeys
    /\ Cardinality(san.parameters.eq) = MaxEqPoints
    /\ Len(san.parameters.effects) \in 1..(MaxEffects - 1)

\* a key the strict group keeps: canonical_param_key maps it to itself
IsCanonicalKey(group, k) == canonical_param_key(group, k) = k

UnsupportedReported(group, k) ==
    SanWarned("{}: dropped unsupported key '{}' (strict vocabulary)", <<group, k>>)

\* the keys of a sanitized strict group are canonical
StrictKeysCanonical(out, group) == \A e \in out : IsCanonicalKey(group, e.k)

\* the entries of a raw strict group with a key outside the vocabulary
OutsideVocabulary(raw, group) == { e \in raw : canonical_param_key(group, e.k) = << >> }

\* the raw effect is looked up under its canonical type: each finite entry
\* with a key of the vocabulary is found under that type and canonical key
EffectCanonicalized(effect) ==
    \A e \in effect.parameters :
        is_finite(e.v) /\ canonical_param_key(GroupOfEffect(effect), e.k) # << >> =>
            \E j \in 1..Len(san.parameters.effects) :
                /\ san.parameters.effects[j].effect_type =
                        canonical_effect_type(effect.effect_type)
                /\ \E p \in san.parameters.effects[j].parameters :
                        p.k = canonical_param_key(GroupOfEffect(effect), e.k)

\* what holds of the keys that survive in the strict groups
StrictOutputCanonical ==
    /\ StrictKeysCanonical(san.parameters.reverb, <<"r","e","v","e","r","b">>)
    /\ StrictKeysCanonical(san.parameters.delay, <<"d","e","l","a","y">>)
    /\ \A j \in 1..Len(san.parameters.effects) :
        /\ canonical_effect_type(san.parameters.effects[j].effect_type) =
                san.parameters.effects[j].effect_type
        /\ StrictKeysCanonical(san.parameters.effects[j].parameters,
                               EffectPrefix \o san.parameters.effects[j].effect_type)
    /\ \A i \in 1..Len(CappedEffects) : EffectCanonicalized(CappedEffects[i])

DistinctOutputKeys(raw, group) ==
    { CanonicalOrOwn(group, e.k) :
        e \in { x \in FiniteEntries(raw) :
                    canonical_param_key(group, x.k) # << >> \/ ~is_strict_group(group) } }

\* a unit map that exceeds its cap is reported as capped
UnitCapReported(raw, group, max_keys) ==
    Cardinality(DistinctOutputKeys(raw, group)) > max_keys =>
        SanWarned("{}: too many keys; capped to {}", <<group, IntToStr(max_keys)>>)

\* C14: whenever sanitize shrinks an input that exceeds a cap (a unit map
\* with more distinct output keys than its maximum, eq with more than 16
\* points, effects with more than 5 entries) a warning reports the capping
C14_CapsReported ==
    Sanitized =>
        /\ UnitCapReported(tone.amp, <<"a","m","p">>, MaxUnitKeys)
        /\ UnitCapReported(tone.reverb, <<"r","e","v","e","r","b">>, MaxUnitKeys)
        /\ UnitCapReported(tone.delay, <<"d","e","l","a","y">>, MaxUnitKeys)
        /\ \A i \in 1..Len(CappedEffects) :
                UnitCapReported(CappedEffects[i].parameters, GroupOfEffect(CappedEffects[i]),
                                MaxParamsPerEffect)
        /\ Cardinality(FiniteEntries(tone.eq)) > MaxEqPoints =>
                SanWarned("eq: too many points; keeping top {} by |dB|", <<IntToStr(MaxEqPoints)>>)
        /\ Len(tone.effects) > MaxEffects =>
                SanWarned("effects: {} entries provided; keeping first {}",
                          <<IntToStr(Len(tone.effects)), IntToStr(MaxEffects)>>)

\* C15: sanitize is a function of the raw tone: every result it can return
\* for the tone holds the same parameters, whatever the order in which the
\* entries of the raw maps are enumerated
C15_SanitizeDeterministic ==
    Sanitized => \A r \in sanitize(tone) : r.parameters = san.parameters

\* ------------------------------------------- claims on the section routines
\* the sections of a tone that go through map_param_group
UnitSections(t) ==
    { [id |-> 0, group |-> <<"a","m","p">>, params |-> t.amp, keywords |-> role_keywords_amp],
      [id |-> -1, group |-> <<"r","e","v","e","r","b">>, params |-> t.reverb, keywords |-> role_keywords_reverb],
      [id |-> -2, group |-> <<"d","e","l","a","y">>, params |-> t.delay, keywords |-> role_keywords_delay] }
    \cup { [id |-> i, group |-> <<"e","f","f","e","c","t",":">> \o t.effects[i].effect_type,
            params |-> t.effects[i].parameters,
            keywords |-> role_keywords_for_effect(normalize_token(t.effects[i].effect_type))] :
            i \in 1..Len(t.effects) }

\* the non-empty sections whose role matched a plugin of the snapshot
MatchedSections ==
    { s \in UnitSections(tone) :
        s.params # {} /\ pick_best_plugin(snapshot, s.keywords) # 0 }

PluginOf(s) == snapshot.plugins[pick_best_plugin(snapshot, s.keywords)]

\* the sections of one group that hold the key
Occurrences(group, key) ==
    Cardinality({ s \in MatchedSections : s.group = group /\ \E e \in s.params : e.k = key })

IsSetFor(a, group, key) ==
    /\ a.type = "SetParameter"
    /\ a.reason.fmt = "{} :: {} -> {}"
    /\ a.reason.args[1] = group
    /\ a.reason.args[2] = key

SetCountFor(actions, group, key) ==
    Cardinality({ i \in 1..Len(actions) : IsSetFor(actions[i], group, key) })

UnmappedWarning(group, key, plugin) ==
    Msg("Unmapped {} param '{}' for plugin '{}'", <<group, key, plugin.name>>)

WarnCountFor(warnings, w) == Cardinality({ i \in 1..Len(warnings) : warnings[i] = w })

\* the key of section s left one SetParameter on the best parameter and no
\* warning, or one warning and no SetParameter, per section holding it
KeyHandled(actions, warnings, s, e, pi) ==
    IF pi # 0
    THEN /\ SetCountFor(actions, s.group, e.k) = Occurrences(s.group, e.k)
         /\ WarnCountFor(warnings, UnmappedWarning(s.group, e.k, PluginOf(s))) = 0
         /\ \A i \in 1..Len(actions) : IsSetFor(actions[i], s.group, e.k) =>
                /\ actions[i].plugin_index = PluginOf(s).index
                /\ actions[i].param_index = PluginOf(s).parameters[pi].index
    ELSE /\ SetCountFor(actions, s.group, e.k) = 0
         /\ WarnCountFor(warnings, UnmappedWarning(s.group, e.k, PluginOf(s)))
                = Occurrences(s.group, e.k)

\* C16: for every key of a non-empty amp, reverb, delay or effect section
\* whose role matched a plugin, the candidates hold exactly one SetParameter
\* for the key when a parameter scores above 0, else exactly one 'Unmapped'
\* warning and no SetParameter; the other keys are mapped all the same, and
\* the warning reaches the result
C16_OneCandidateOrWarning ==
    Mapped =>
        /\ \A c \in MapCandidates(config, tone, snapshot) :
            \A s \in MatchedSections : \A e \in s.params :
                KeyHandled(c.actions, c.warnings, s, e, pick_best_param(PluginOf(s), e.k))
        /\ \A s \in MatchedSections : \A e \in s.params :
            pick_best_param(PluginOf(s), e.k) = 0 =>
                /\ SetCountFor(mapping.actions, s.group, e.k) = 0
                /\ WarnCountFor(mapping.warnings, UnmappedWarning(s.group, e.k, PluginOf(s)))
                        = Occurrences(s.group, e.k)

\* one section mapped a key to a SetParameter and warned about another key
C16_Witness ==
    /\ Mapped
    /\ \E s \in MatchedSections : \E e, f \in s.params :
        /\ pick_best_param(PluginOf(s), e.k) # 0
        /\ pick_best_param(PluginOf(s), f.k) = 0
        /\ SetCountFor(mapping.actions, s.group, e.k) = 1
        /\ WarnCountFor(mapping.warnings, UnmappedWarning(s.group, f.k, PluginOf(s))) = 1

\* the positions of the SetParameter candidates of buffer p with the key of a
CandidatesFor(p, a) ==
    { j \in 1..Len(p.actions) :
        p.actions[j].type = "SetParameter" /\ SetKey(p.actions[j]) = SetKey(a) }

\* the candidate the planner's hygiene turns c into
Cleaned(c) == [c EXCEPT !.value = Expected(c.value)]

CountOf(actions, a) == Cardinality({ i \in 1..Len(actions) : actions[i] = a })

\* the result keeps, of the candidates of p with one target, the last one,
\* and keeps every LoadPlugin and EnablePlugin of p as often as p holds it
KeepsLast(p) ==
    /\ \A j \in 1..Len(p.actions) :
        IF p.actions[j].type = "SetParameter"
        THEN CountOf(mapping.actions, Cleaned(p.actions[MaxOf(CandidatesFor(p, p.actions[j]))])) = 1
        ELSE CountOf(mapping.actions, p.actions[j]) = CountOf(p.actions, p.actions[j])
    /\ \A i \in Positions :
        IF IsSetAt(i)
        THEN /\ CandidatesFor(p, ActionAt(i)) # {}
             /\ ActionAt(i) = Cleaned(p.actions[MaxOf(CandidatesFor(p, ActionAt(i)))])
        ELSE CountOf(p.actions, ActionAt(i)) > 0

\* C17: the result holds at most one SetParameter per (track, plugin_index,
\* param_index); of several candidates with one such triple the last in
\* candidate order is kept; LoadPlugin and EnablePlugin actions pass through
\* deduplication unchanged
C17_DedupKeepsLast ==
    Mapped =>
        /\ \A i, j \in Positions :
            IsSetAt(i) /\ IsSetAt(j) /\ SetKey(ActionAt(i)) = SetKey(ActionAt(j)) => i = j
        /\ \E p \in Prepared(config, tone, snapshot) :
            MappingResult(plan_actions(p)) = mapping
        /\ \A p \in Prepared(config, tone, snapshot) :
            MappingResult(plan_actions(p)) = mapping => KeepsLast(p)

\* two candidates with one target and different values went into the planner
\* next to an EnablePlugin, and the result holds the later one only
C17_Witness ==
    /\ Mapped
    /\ \E i \in Positions : IsEnableAt(i)
    /\ \E p \in Prepared(config, tone, snapshot) :
        /\ MappingResult(plan_actions(p)) = mapping
        /\ \E i, j \in 1..Len(p.actions) :
            /\ i < j
            /\ p.actions[i].type = "SetParameter" /\ p.actions[j].type = "SetParameter"
            /\ SetKey(p.actions[i]) = SetKey(p.actions[j])
            /\ p.actions[i].value # p.actions[j].value

\* ------------------------------------------------- claims on the EQ section
EqPluginPos == pick_best_plugin(snapshot, role_keywords_eq)
EqPlugin == snapshot.plugins[EqPluginPos]

HasParseableEq == \E e \in tone.eq : parse_frequency_hz(e.k).ok

\* the plugin holds a 'Band N Freq' and a 'Band N Gain' parameter
ExposesBandShape(plugin) ==
    /\ \E i \in 1..Len(plugin.parameters) : IsBandParam(plugin.parameters[i], TRUE)
    /\ \E i \in 1..Len(plugin.parameters) : IsBandParam(plugin.parameters[i], FALSE)

IsEqSet(a) ==
    /\ a.type = "SetParameter"
    /\ a.reason.fmt \in { "eq :: set band {} freq to {:.0} Hz",
                          "eq :: set band {} gain to {:+.1} dB" }

\* the warnings with which the EQ section gives up on a chosen plugin
EqSkipFormats ==
    { "EQ plugin '{}' is not supported by deterministic mapper yet; EQ skipped",
      "EQ map: '{}' does not look like ReaEQ band params; skipped" }

EqSkipCount ==
    Cardinality({ w \in 1..Len(mapping.warnings) : mapping.warnings[w].fmt \in EqSkipFormats })

\* C18: when the plugin chosen for the EQ role exposes 'Band N Freq' and
\* 'Band N Gain' parameters and the tone has a parseable eq point, the result
\* holds EQ SetParameter actions on that plugin; the EQ is skipped, with a
\* single warning, only when the chosen plugin does not expose that shape
C18_EqAppliedOnBandShape ==
    Mapped /\ tone.eq # {} /\ EqPluginPos # 0 =>
        /\ ExposesBandShape(EqPlugin) /\ HasParseableEq =>
            \E i \in Positions :
                IsEqSet(ActionAt(i)) /\ ActionAt(i).plugin_index = EqPlugin.index
        /\ EqSkipCount > 0 => ~ExposesBandShape(EqPlugin)
        /\ ~ExposesBandShape(EqPlugin) =>
            EqSkipCount <= 1 /\ \A i \in Positions : ~IsEqSet(ActionAt(i))

\* map_eq_reaeq ran: an EQ plugin was chosen and passed the name test
EqAssignerRan ==
    Mapped /\ tone.eq # {} /\ EqPluginPos # 0 /\ contains_token(EqPlugin.name, <<"r","e","a","e","q">>)

\* some warning of the result names the key, or says that no key parsed
DropWarned(key) ==
    \E w \in 1..Len(mapping.warnings) :
        \/ mapping.warnings[w].fmt = "EQ map: no parsable frequency keys found; skipped"
        \/ key \in SeqRange(mapping.warnings[w].args)

\* C19: in the EQ band assigner every eq key that parse_frequency_hz cannot
\* parse is dropped with a warning, also when other keys of the map parse
C19_UnparseableEqWarned ==
    EqAssignerRan =>
        \A e \in tone.eq : ~parse_frequency_hz(e.k).ok => DropWarned(e.k)

ParseableEntries == { e \in tone.eq : parse_frequency_hz(e.k).ok }

PointOf(e) == [hz |-> parse_frequency_hz(e.k).v, db |-> e.v]

\* the orders of the parseable entries that descend in |dB|
DescendingOrders ==
    { o \in Perms(ParseableEntries) :
        \A i, j \in 1..Len(o) : i < j => f_ge(f_abs(o[i].v), f_abs(o[j].v)) }

\* the band numbers of the plugin's Freq parameters, ascending
FreqBands(plugin) ==
    SortedInts({ BandOf(plugin, i) :
        i \in { x \in 1..Len(plugin.parameters) : IsBandParam(plugin.parameters[x], TRUE) } })

HasGainParam(plugin, band) ==
    \E i \in 1..Len(plugin.parameters) :
        IsBandParam(plugin.parameters[i], FALSE) /\ BandOf(plugin, i) = band

\* the number of (point, band) pairs the zip makes
PairCount(cfg, plugin) ==
    MinOf({ Cardinality(ParseableEntries), cfg.max_eq_points, Len(FreqBands(plugin)) })

\* a is the SetParameter on the band's Freq (isFreq) or Gain parameter
IsBandSet(a, plugin, band, isFreq, value) ==
    /\ IsEqSet(a)
    /\ a.plugin_index = plugin.index
    /\ a.value = value
    /\ \E i \in 1..Len(plugin.parameters) :
        /\ IsBandParam(plugin.parameters[i], isFreq)
        /\ BandOf(plugin, i) = band
        /\ a.param_index = plugin.parameters[i].index
        /\ a.param_name = plugin.parameters[i].name

\* the EQ candidates sets are, pair by pair in the order pairs of pair
\* numbers, the Freq and the Gain SetParameter of the pair's point and band
PairsEmitted(sets, plugin, o, pairs) ==
    /\ Len(sets) = 2 * Len(pairs)
    /\ \A j \in 1..Len(pairs) :
        /\ IsBandSet(sets[2 * j - 1], plugin, FreqBands(plugin)[pairs[j]], TRUE,
                     hz_to_normalized_log(PointOf(o[pairs[j]]).hz))
        /\ IsBandSet(sets[2 * j], plugin, FreqBands(plugin)[pairs[j]], FALSE,
                     db_to_normalized(PointOf(o[pairs[j]]).db, EqMaxAbsDb))

UpTo(n) == [i \in 1..n |-> i]

PairHasGain(i) == HasGainParam(EqPlugin, FreqBands(EqPlugin)[i])

\* the band assigner ran on a plugin of the band shape with a parseable point
EqAssigned == EqAssignerRan /\ ExposesBandShape(EqPlugin) /\ ParseableEntries # {}

Smallest(S) == CHOOSE i \in S : \A j \in S : i <= j

EqualAt(p, synonyms) == { i \in 1..Len(synonyms) : p = synonyms[i] }
ContainedAt(p, synonyms) == { i \in 1..Len(synonyms) : str_contains(p, synonyms[i]) }

\* the score table of the Param Matcher read as a list of cases in order:
\* equality with a synonym counts wherever the synonym stands in the list
StatedScore(p, key_norm, synonyms) ==
    IF p = key_norm THEN 100
    ELSE IF str_contains(p, key_norm) THEN 60
    ELSE IF EqualAt(p, synonyms) # {} THEN 90 - (Smallest(EqualAt(p, synonyms)) - 1)
    ELSE IF ContainedAt(p, synonyms) # {} THEN 50 - (Smallest(ContainedAt(p, synonyms)) - 1)
    ELSE 0

ScoreOf(plugin, i, key) ==
    score_param_name(plugin.parameters[i].name, normalize_token(key),
                     synonyms_for_key(normalize_token(key)))

\* the first parameter in plugin order with the greatest positive score
IsFirstBest(plugin, key, pi) ==
    IF pi = 0 THEN \A i \in 1..Len(plugin.parameters) : ScoreOf(plugin, i, key) <= 0
    ELSE /\ ScoreOf(plugin, pi, key) > 0
         /\ \A i \in 1..Len(plugin.parameters) :
                /\ ScoreOf(plugin, i, key) <= ScoreOf(plugin, pi, key)
                /\ i < pi => ScoreOf(plugin, i, key) < ScoreOf(plugin, pi, key)

\* C21: for every key of a matched section and every parameter of its
\* plugin, score_param_name is 100 on equality with the key, 60 on
\* containing it, 90 - i on equality with the i-th synonym for every i,
\* 50 - i on containing the i-th synonym and 0 otherwise, and
\* pick_best_param returns the first parameter with the greatest positive
\* score or nothing
C21_ParamScoresAsStated ==
    Mapped =>
        \A s \in MatchedSections : \A e \in s.params :
            /\ \A i \in 1..Len(PluginOf(s).parameters) :
                ScoreOf(PluginOf(s), i, e.k)
                    = StatedScore(normalize_token(PluginOf(s).parameters[i].name),
                                  normalize_token(e.k),
                                  synonyms_for_key(normalize_token(e.k)))
            /\ IsFirstBest(PluginOf(s), e.k, pick_best_param(PluginOf(s), e.k))

Picked == pc = "Picked"

RECURSIVE SumOf(_, _)
SumOf(S, f) ==
    IF S = {} THEN 0 ELSE f[Smallest(S)] + SumOf(S \ {Smallest(S)}, f)

\* sum of (10 - i) over the 0-indexed positions i of the keywords occurring
\* in the normalized name
StatedRoleScore(name, keywords) ==
    SumOf({ i \in 1..Len(keywords) : str_contains(normalize_token(name), keywords[i]) },
          [i \in 1..Len(keywords) |-> 10 - (i - 1)])

RoleScoreAt(i) == StatedRoleScore(snapshot.plugins[i].name, picked.keywords)

NamedAt(name) == { i \in 1..Len(snapshot.plugins) : snapshot.plugins[i].name = name }

\* C22: pick_best_plugin returns the first plugin in snapshot order whose
\* score, the sum of (10 - i) over the keywords occurring in its normalized
\* name, is the greatest positive one, and no plugin when every score is
\* <= 0; with 'ReaDelay (Cockos)' and 'Delay' in the snapshot the delay role
\* gets ReaDelay in either order
C22_RoleMatch ==
    Picked =>
        /\ \A i \in 1..Len(snapshot.plugins) :
            score_text_against_keywords(snapshot.plugins[i].name, picked.keywords)
                = RoleScoreAt(i)
        /\ IF picked.plugin = 0
           THEN \A i \in 1..Len(snapshot.plugins) : RoleScoreAt(i) <= 0
           ELSE /\ picked.plugin \in 1..Len(snapshot.plugins)
                /\ RoleScoreAt(picked.plugin) > 0
                /\ \A i \in 1..Len(snapshot.plugins) :
                    /\ RoleScoreAt(i) <= RoleScoreAt(picked.plugin)
                    /\ i < picked.plugin => RoleScoreAt(i) < RoleScoreAt(picked.plugin)
        /\ (/\ picked.keywords = role_keywords_delay
            /\ NamedAt(DefaultReaDelay) # {}
            /\ NamedAt(<<"D","e","l","a","y">>) # {})
           => picked.plugin \in NamedAt(DefaultReaDelay)

\* the delay role picked ReaDelay standing behind a generic Delay
C22_Witness ==
    /\ Picked
    /\ picked.keywords = role_keywords_delay
    /\ \E i \in NamedAt(<<"D","e","l","a","y">>) : \E j \in NamedAt(DefaultReaDelay) :
        i < j /\ picked.plugin = j

\* two plugins tie for the delay role and the earlier one is picked
C22_WitnessTie ==
    /\ Picked
    /\ picked.keywords = role_keywords_delay
    /\ \E i \in NamedAt(<<"D","e","l","a","y">>) : \E j \in NamedAt(<<"T","a","p","e"," ","D","e","l","a","y">>) :
        picked.plugin = i /\ i < j

\* ------------------------------------------------ claims on the final order
GateNamed(name) ==
    \/ \E w \in { <<"b","y","p","a","s","s">>, <<"e","n","a","b","l","e">>, <<"e","n","a","b","l","e","d">>, <<"a","c","t","i","v","e">> } :
        str_contains(normalize_token(name), w)
    \/ str_ends_with(normalize_token(name), <<"o","n">>)

\* (type_rank, plugin_rank, set_rank) as the ordering rule states them
StatedKey(a) ==
    << TypeRankOf(a.type),
       IF a.type = "LoadPlugin" THEN -1 ELSE a.plugin_index,
       IF a.type = "SetParameter" /\ ~GateNamed(a.param_name) THEN 1 ELSE 0 >>

StatedKeyLess(ka, kb) ==
    \E p \in 1..3 : ka[p] < kb[p] /\ \A q \in 1..(p - 1) : ka[q] = kb[q]

\* the section that produced an action, from its reason: amp 0, effects 1,
\* reverb 2, delay 3, EQ 4, inserted by ensure_prerequisites 5
SectionRank(a) ==
    IF a.reason.fmt \in { "Auto-enable plugin because parameters will be set",
                          "Auto-enable section for '{}'" } THEN 5
    ELSE IF a.reason.fmt \in { "Enable EQ plugin for tone mapping", "Load missing EQ plugin",
                               "eq :: set band {} freq to {:.0} Hz",
                               "eq :: set band {} gain to {:+.1} dB" } THEN 4
    ELSE IF a.reason.fmt \in { "Enable delay plugin for tone mapping",
                               "Load missing delay plugin" } THEN 3
    ELSE IF a.reason.fmt \in { "Enable reverb plugin for tone mapping",
                               "Load missing reverb plugin" } THEN 2
    ELSE IF a.reason.fmt \in { "Enable '{}' plugin for tone mapping",
                               "Load missing effect plugin for '{}'" } THEN 1
    ELSE IF a.reason.fmt = "Enable amp plugin for tone mapping" THEN 0
    ELSE IF a.reason.args[1] = <<"d","e","l","a","y">> THEN 3
    ELSE IF a.reason.args[1] = <<"r","e","v","e","r","b">> THEN 2
    ELSE IF a.reason.args[1] = <<"a","m","p">> THEN 0
    ELSE 1

RECURSIVE WithKey(_, _, _)
WithKey(actions, key, i) ==
    IF i > Len(actions) THEN << >>
    ELSE (IF StatedKey(actions[i]) = key THEN << actions[i] >> ELSE << >>)
         \o WithKey(actions, key, i + 1)

\* the actions as produced: the candidates and the inserted actions after
\* value hygiene and deduplication, before the sort
Produced(p) == Deduplicate(ClampValues(p.actions), 1)

KeepsProducedOrder(p) ==
    \A i \in Positions :
        WithKey(mapping.actions, StatedKey(ActionAt(i)), 1)
            = WithKey(Produced(p), StatedKey(ActionAt(i)), 1)

C23_WitnessGateFirst ==
    /\ Mapped
    /\ \E i \in Positions : \E j \in (i + 1)..Len(mapping.actions) :
        /\ IsSetAt(i) /\ IsSetAt(j)
        /\ ActionAt(i).plugin_index = ActionAt(j).plugin_index
        /\ StatedKey(ActionAt(i))[3] < StatedKey(ActionAt(j))[3]
    /\ \E i \in Positions : \E j \in (i + 1)..Len(mapping.actions) :
        /\ IsSetAt(i) /\ IsSetAt(j) /\ StatedKey(ActionAt(i)) = StatedKey(ActionAt(j))

\* ------------------------------------------- claims on the gate inferencer
PrereqDone == pc = "Prepared"
Strip == snapshot.plugins[1]
ParamsOf(plugin) == 1..Len(plugin.parameters)

\* the positions of the plugin's gate parameters
StatedGates(plugin) == { g \in ParamsOf(plugin) : GateNamed(plugin.parameters[g].name) }

Overlap(plugin, g, t) ==
    Cardinality(module_tokens(plugin.parameters[g].name)
                \cap module_tokens(plugin.parameters[t].name))

Overlapping(plugin, t) == { g \in StatedGates(plugin) : Overlap(plugin, g, t) >= 1 }

GlobalGates(plugin) ==
    { g \in StatedGates(plugin) : module_tokens(plugin.parameters[g].name) = {} }

\* the gate the selection rule names for the parameter at position t: a
\* position of the plugin's parameters, 0 for none
StatedGate(plugin, t) ==
    IF t \in StatedGates(plugin) THEN 0
    ELSE IF Overlapping(plugin, t) # {}
    THEN Smallest({ g \in Overlapping(plugin, t) :
                    \A h \in Overlapping(plugin, t) : Overlap(plugin, h, t) <= Overlap(plugin, g, t) })
    ELSE IF Cardinality(StatedGates(plugin)) = 1 THEN Smallest(StatedGates(plugin))
    ELSE IF GlobalGates(plugin) # {} THEN Smallest(GlobalGates(plugin))
    ELSE 0

PositionOf(plugin, param_index) ==
    CHOOSE t \in ParamsOf(plugin) : plugin.parameters[t].index = param_index

\* the parameter index GateFor yields for an action, NoIndex for none
GateIndexFor(a, gates) ==
    IF GateFor(a, gates) = 0 THEN NoIndex ELSE gates[GateFor(a, gates)].param_index

StatedGateIndex(plugin, t) ==
    IF StatedGate(plugin, t) = 0 THEN NoIndex
    ELSE plugin.parameters[StatedGate(plugin, t)].index

IsOpenerFor(a, param_name) ==
    /\ a.type = "SetParameter"
    /\ a.reason = Msg("Auto-enable section for '{}'", <<param_name>>)

Openers(actions) ==
    { i \in 1..Len(actions) :
        actions[i].type = "SetParameter" /\ actions[i].reason.fmt = "Auto-enable section for '{}'" }

\* C24: for every candidate SetParameter the gate chosen is the overlapping
\* gate with the largest module-token overlap (the earlier one on a tie),
\* else the plugin's sole gate, else its first gate without module tokens,
\* else none; a candidate on a gate parameter chooses no gate; every
\* inserted toggle is on the gate chosen for the parameter it names
C24_GateChoice ==
    PrereqDone =>
        /\ \A i \in 1..Len(prereq.before.actions) :
            GateIndexFor(prereq.before.actions[i], PluginGatesAt(snapshot, Strip.index))
                = StatedGateIndex(Strip, PositionOf(Strip, prereq.before.actions[i].param_index))
        /\ \A o \in Openers(prereq.after.actions) :
            \E i \in 1..Len(prereq.before.actions) :
                /\ IsOpenerFor(prereq.after.actions[o], prereq.before.actions[i].param_name)
                /\ prereq.after.actions[o].param_index
                    = StatedGateIndex(Strip, PositionOf(Strip, prereq.before.actions[i].param_index))

FirstTarget == PositionOf(Strip, prereq.before.actions[1].param_index)

\* two gates tie on the overlap with the candidate and the earlier one is
\* opened
C24_Witness ==
    /\ PrereqDone
    /\ \E g, h \in Overlapping(Strip, FirstTarget) :
        /\ g < h
        /\ Overlap(Strip, g, FirstTarget) = Overlap(Strip, h, FirstTarget)
        /\ StatedGate(Strip, FirstTarget) = g
        /\ \E o \in Openers(prereq.after.actions) :
            prereq.after.actions[o].param_index = Strip.parameters[g].index

\* no gate overlaps and the first gate without module tokens is opened
C24_WitnessGlobal ==
    /\ PrereqDone
    /\ Overlapping(Strip, FirstTarget) = {}
    /\ Cardinality(StatedGates(Strip)) = 2
    /\ \E o \in Openers(prereq.after.actions) :
        prereq.after.actions[o].param_index = Strip.parameters[Smallest(GlobalGates(Strip))].index

\* two gates, none overlapping and none without module tokens: no gate
C24_WitnessNone ==
    /\ PrereqDone
    /\ FirstTarget \notin StatedGates(Strip)
    /\ Cardinality(StatedGates(Strip)) = 2
    /\ StatedGate(Strip, FirstTarget) = 0
    /\ Openers(prereq.after.actions) = {}

StatedBypass(plugin, g) == str_contains(normalize_token(plugin.parameters[g].name), <<"b","y","p","a","s","s">>)

\* bypass kind with current value >= 0.5, or enable kind with current value < 0.5
StatedInactive(plugin, g) ==
    /\ is_finite(plugin.parameters[g].current_value)
    /\ IF StatedBypass(plugin, g)
       THEN plugin.parameters[g].current_value.n >= Unit \div 2
       ELSE plugin.parameters[g].current_value.n < Unit \div 2

\* the gates chosen for the candidates
ChosenGates ==
    { StatedGate(Strip, PositionOf(Strip, prereq.before.actions[i].param_index)) :
        i \in 1..Len(prereq.before.actions) } \ {0}

OpenersOn(plugin, g) ==
    { o \in Openers(prereq.after.actions) :
        /\ prereq.after.actions[o].plugin_index = plugin.index
        /\ prereq.after.actions[o].param_index = plugin.parameters[g].index }

GateWarnings ==
    { w \in 1..Len(prereq.after.warnings) :
        prereq.after.warnings[w].fmt
            = "Section gate '{}' appears inactive; inserting toggle before setting '{}'" }

\* C25: ensure_prerequisites inserts one opener for a gate exactly when the
\* gate was chosen for some candidate and is inactive in the snapshot, none
\* otherwise; the opener carries 0.0 for a bypass gate and 1.0 for an enable
\* gate, and every opener comes with one warning naming its gate
C25_OpenersExactly ==
    PrereqDone =>
        /\ \A g \in ParamsOf(Strip) :
            Cardinality(OpenersOn(Strip, g))
                = (IF g \in ChosenGates /\ StatedInactive(Strip, g) THEN 1 ELSE 0)
        /\ \A g \in StatedGates(Strip) : \A o \in OpenersOn(Strip, g) :
            /\ prereq.after.actions[o].value
                = (IF StatedBypass(Strip, g) THEN Fin(0) ELSE Fin(Unit))
            /\ prereq.after.actions[o].param_name = Strip.parameters[g].name
            /\ Cardinality({ w \in GateWarnings :
                    prereq.after.warnings[w].args[1] = Strip.parameters[g].name }) = 1
        /\ Cardinality(GateWarnings) = Cardinality(Openers(prereq.after.actions))
        /\ Len(prereq.after.actions)
            = Len(prereq.before.actions) + Cardinality(Openers(prereq.after.actions))

\* two candidates choose one inactive gate, which is opened once
C25_Witness ==
    /\ PrereqDone
    /\ Len(prereq.before.actions) = 2
    /\ prereq.before.actions[1].param_index # prereq.before.actions[2].param_index
    /\ \E g \in ChosenGates :
        /\ StatedInactive(Strip, g)
        /\ \A i \in 1..2 :
            StatedGate(Strip, PositionOf(Strip, prereq.before.actions[i].param_index)) = g
        /\ Cardinality(OpenersOn(Strip, g)) = 1

\* a chosen gate that is active in the snapshot is left alone
C25_WitnessActive ==
    /\ PrereqDone
    /\ \E g \in ChosenGates : ~StatedInactive(Strip, g)
    /\ Openers(prereq.after.actions) = {}

\* ------------------------------------------------- claims on plugin loading
LoadsWith(reason) ==
    Cardinality({ i \in Positions : IsLoadAt(i) /\ ActionAt(i).reason = reason })

EffectLoadReason(effect_type) == Msg("Load missing effect plugin for '{}'", <<effect_type>>)

\* the effects of this type whose section must load its default plugin
EffectsToLoad(effect_type) ==
    { i \in 1..Len(tone.effects) :
        /\ tone.effects[i].effect_type = effect_type
        /\ tone.effects[i].parameters # {}
        /\ NoPluginFor(role_keywords_for_effect(normalize_token(effect_type)))
        /\ config.allow_load_plugins
        /\ normalize_token(effect_type) \in { <<"n","o","i","s","e","g","a","t","e">>, <<"g","a","t","e">> } }

\* a LoadPlugin with this reason is in the result exactly when the bucket
\* is non-empty, no plugin matches the role and loading is allowed; it names
\* the default and the section emits nothing else
SectionLoads(params, keywords, reason, default, group, enable) ==
    /\ LoadsWith(reason)
        = (IF params # {} /\ NoPluginFor(keywords) /\ config.allow_load_plugins THEN 1 ELSE 0)
    /\ \A i \in Positions :
        IsLoadAt(i) /\ ActionAt(i).reason = reason => ActionAt(i).plugin_name = default
    /\ LoadsWith(reason) > 0 =>
        \A i \in Positions :
            /\ IsSetAt(i) /\ ActionAt(i).reason.args # << >> => ActionAt(i).reason.args[1] # group
            /\ IsEnableAt(i) => ActionAt(i).reason.fmt # enable

\* C26: a section emits a LoadPlugin exactly when its bucket is non-empty,
\* no plugin matches its role, allow_load_plugins is true and the role has a
\* fixed default; the LoadPlugin names the default, the section emits no
\* SetParameter or EnablePlugin with it, and a section with an empty bucket
\* emits nothing
C26_LoadExactlyWhenMissing ==
    Mapped =>
        /\ SectionLoads(tone.reverb, role_keywords_reverb, Msg("Load missing reverb plugin", << >>),
                        DefaultReaVerbate, <<"r","e","v","e","r","b">>, "Enable reverb plugin for tone mapping")
        /\ SectionLoads(tone.delay, role_keywords_delay, Msg("Load missing delay plugin", << >>),
                        DefaultReaDelay, <<"d","e","l","a","y">>, "Enable delay plugin for tone mapping")
        /\ SectionLoads(tone.eq, role_keywords_eq, Msg("Load missing EQ plugin", << >>),
                        DefaultReaEQ, <<"e","q">>, "Enable EQ plugin for tone mapping")
        /\ \A e \in 1..Len(tone.effects) :
            /\ LoadsWith(EffectLoadReason(tone.effects[e].effect_type))
                = Cardinality(EffectsToLoad(tone.effects[e].effect_type))
            /\ \A i \in Positions :
                IsLoadAt(i) /\ ActionAt(i).reason = EffectLoadReason(tone.effects[e].effect_type)
                    => ActionAt(i).plugin_name = DefaultReaGate
        /\ \A i \in Positions : IsLoadAt(i) => SectionRank(ActionAt(i)) \in 1..4

\* ------------------------------------------------- claims on the UndoManager
CurrentNonEmpty ==
    /\ manager.current_action # << >>
    /\ manager.current_action[1].parameter_changes + manager.current_action[1].fx_toggles
        + manager.current_action[1].plugin_changes > 0

\* the stack after one more action, the oldest dropped when 50 are held
Pushed(stack, action) ==
    IF Len(stack) < 50 THEN Append(stack, action) ELSE Append(Tail(stack), action)

CommitPost ==
    IF CurrentNonEmpty
    THEN /\ manager'.undo_stack = Pushed(manager.undo_stack, manager.current_action[1])
         /\ manager'.redo_stack = << >>
         /\ caller'.ret = "Some"
    ELSE /\ manager'.undo_stack = manager.undo_stack
         /\ manager'.redo_stack = manager.redo_stack
         /\ caller'.ret = "None"

StacksWithinCap == Len(manager.undo_stack) <= 50 /\ Len(manager.redo_stack) <= 50

\* C27: every commit_action of a non-empty current action pushes it on the
\* undo stack and leaves the redo stack empty, every commit_action of an
\* empty or absent current action returns None and leaves both stacks as
\* they were, and neither stack ever holds more than 50 actions
C27_CommitAndCaps ==
    /\ []StacksWithinCap
    /\ [][commit_action => CommitPost]_vars

\* a commit returned Some with the undo stack at its cap and the redo stack
\* empty, the caller holding an action popped before
C27_Witness ==
    /\ caller.op = "commit_action" /\ caller.ret = "Some"
    /\ Len(manager.undo_stack) = MAX_UNDO_HISTORY
    /\ manager.redo_stack = << >>
    /\ caller.held # << >>

\* a commit that returned None with both stacks holding actions
C27_WitnessNone ==
    /\ caller.op = "commit_action" /\ caller.ret = "None"
    /\ manager.undo_stack # << >> /\ manager.redo_stack # << >>

\* ------------------------------------- claims on tone values and toggles
\* the values the tone's candidates assign to the target of the action a
ToneValuesFor(c, a) ==
    { Expected(c.actions[j].value) :
        j \in { k \in 1..Len(c.actions) :
                    c.actions[k].type = "SetParameter" /\ SetKey(c.actions[k]) = SetKey(a) } }

\* C28: a SetParameter of the result whose target the tone itself assigns
\* carries the clamped value of a tone candidate, never the value of an
\* inserted toggle, also when the target is a gate parameter chosen for
\* another parameter of the plugin
C28_ToneValueKept ==
    Mapped =>
        \A c \in MapCandidates(config, tone, snapshot) : \A i \in Positions :
            IsSetAt(i) /\ ToneValuesFor(c, ActionAt(i)) # {}
                => ActionAt(i).value \in ToneValuesFor(c, ActionAt(i))

\* C29: the result holds at most one EnablePlugin per plugin_index and at
\* most one LoadPlugin per plugin_name
C29_NoDuplicateEnableOrLoad ==
    Mapped =>
        \A i \in Positions : \A j \in (i + 1)..Len(mapping.actions) :
            /\ IsEnableAt(i) /\ IsEnableAt(j)
                => ActionAt(i).plugin_index # ActionAt(j).plugin_index
            /\ IsLoadAt(i) /\ IsLoadAt(j)
                => ActionAt(i).plugin_name # ActionAt(j).plugin_name


\* ----------------------------------------- claims on the resnapshot protocol
\* the effect types of the inputs that have a default plugin
GateEffectTypes ==
    { e.effect_type : e \in { x \in EffectCatalog :
        default_plugin_for_effect(normalize_token(canonical_effect_type(x.effect_type)))
            # NoDefault } }
    \cup { canonical_effect_type(e.effect_type) : e \in { x \in EffectCatalog :
        default_plugin_for_effect(normalize_token(canonical_effect_type(x.effect_type)))
            # NoDefault } }

\* the roles a missing plugin is loaded for: the reason of the load, the
\* default name, the keyword list, the warning of a role without plugin and
\* the group of the section
ProtocolRoles ==
    { [load |-> Msg("Load missing reverb plugin", << >>), default |-> DefaultReaVerbate,
       keywords |-> role_keywords_reverb, group |-> <<"r","e","v","e","r","b">>,
       none |-> Msg("No suitable reverb plugin found; skipped", << >>)],
      [load |-> Msg("Load missing delay plugin", << >>), default |-> DefaultReaDelay,
       keywords |-> role_keywords_delay, group |-> <<"d","e","l","a","y">>,
       none |-> Msg("No suitable delay plugin found; skipped", << >>)],
      [load |-> Msg("Load missing EQ plugin", << >>), default |-> DefaultReaEQ,
       keywords |-> role_keywords_eq, group |-> <<"e","q">>,
       none |-> Msg("No suitable EQ plugin found; skipped", << >>)] }
    \cup { [load |-> Msg("Load missing effect plugin for '{}'", <<t>>),
            default |-> default_plugin_for_effect(normalize_token(t)),
            keywords |-> role_keywords_for_effect(normalize_token(t)),
            group |-> <<"e","f","f","e","c","t",":">> \o t,
            none |-> Msg("No suitable plugin found for effect '{}'; skipped", <<t>>)] :
            t \in GateEffectTypes }

\* the first map call emitted the role's LoadPlugin with the default name
LoadedInFirstCall(r) ==
    \E i \in 1..Len(applied) :
        /\ applied[i].call = 1
        /\ SentType(i) = "LoadPlugin"
        /\ applied[i].action.reason = r.load
        /\ applied[i].action.plugin_name = r.default

\* the second map call ran on a refreshed snapshot that holds the plugin
\* loaded for the role
Refreshed(r) ==
    /\ call = 2 /\ Mapped
    /\ LoadedInFirstCall(r)
    /\ NamedAt(r.default) # {}

\* the candidates hold a SetParameter or an 'Unmapped' warning for the key
UnitKeyAnswered(c, s, key) ==
    \/ SetCountFor(c.actions, s.group, key) > 0
    \/ WarnCountFor(c.warnings, UnmappedWarning(s.group, key, PluginOf(s))) > 0

\* the result sets a band to the key's frequency, or warns about the key
EqKeyAnswered(key) ==
    \/ DropWarned(key)
    \/ /\ parse_frequency_hz(key).ok
       /\ \E i \in Positions :
            /\ ActionAt(i).reason.fmt = "eq :: set band {} freq to {:.0} Hz"
            /\ ActionAt(i).reason.args[2] = FloatToStr(parse_frequency_hz(key).v)

KeysAnswered(r) ==
    IF r.group = <<"e","q">>
    THEN \A e \in tone.eq : EqKeyAnswered(e.k)
    ELSE \A c \in MapCandidates(config, tone, snapshot) :
            \A s \in MatchedSections : s.group = r.group =>
                \A e \in s.params : UnitKeyAnswered(c, s, e.k)

\* the second map call found a plugin of positive score for the role and
\* emitted no 'No suitable ... plugin found' warning for it
RoleFound(r) ==
    /\ ~config.allow_load_plugins
    /\ pick_best_plugin(snapshot, r.keywords) # 0
    /\ StatedRoleScore(snapshot.plugins[pick_best_plugin(snapshot, r.keywords)].name,
                       r.keywords) > 0
    /\ WarnCountFor(mapping.warnings, r.none) = 0

DefaultsScore ==
    \A r \in ProtocolRoles : StatedRoleScore(r.default, r.keywords) > 0

\* the protocol's progress without the clause on the section's keys
RoleFoundAfterLoad ==
    /\ DefaultsScore
    /\ \A r \in ProtocolRoles : Refreshed(r) => RoleFound(r)

\* C30: when the first map call emitted a LoadPlugin with the default name
\* of a role and the refreshed snapshot holds a plugin of that name, the
\* second map call, loading disabled, finds a plugin of positive score for
\* the role, emits no 'No suitable ... plugin found' warning for it and maps
\* or warns on each key of that section; each default name scores above 0
\* against the keyword list of its role
C30_ResnapshotProgress ==
    /\ RoleFoundAfterLoad
    /\ \A r \in ProtocolRoles : Refreshed(r) => KeysAnswered(r)

====
